---- MODULE Spec2Model ----
(***************************************************************************)
(* GitLab pipeline status monitor: the three-tier file cache               *)
(* (MultiLevelCacheManager: groups/projects, branches, pipelines) and the  *)
(* htmx routes that read it and refill it from the GitLab API.             *)
(*                                                                         *)
(* Time is in milliseconds, as Date.now().  A tier document is one JSON    *)
(* file holding an object keyed by server name, project path or            *)
(* "projectPath:branchName".                                               *)
(***************************************************************************)
EXTENDS Integers, Sequences, FiniteSets, TLC

\* ------------------------------------------------------------------------
\* Bounds of the model
\* ------------------------------------------------------------------------
\* clock advances in one behaviour
MaxTicks == 2
\* direct calls of the cache manager's methods in one behaviour
MaxCalls == 2
\* HTTP requests in one behaviour
MaxRequests == 2

\* ------------------------------------------------------------------------
\* Program constants
\* ------------------------------------------------------------------------
DefaultGroupsProjectsTTL == 1800
DefaultBranchesTTL == 300
DefaultPipelinesTTL == 5
MsPerSecond == 1000
\* CacheResult.age is optional: the results without an entry carry no age
NoAge == -1

\* ------------------------------------------------------------------------
\* Values
\* ------------------------------------------------------------------------
\* JavaScript null, undefined, and an array (wrapped, so that every value is
\* a record)
Null == [null |-> TRUE]
Undefined == [undefined |-> TRUE]
Arr(s) == [array |-> s]
Void == [void |-> TRUE]

ServerNames == {"gitlab"}
ProjectPaths == {"g/a", "h/b"}
BranchNames == {"main"}

\* a Pipeline of the GitLab API: its id, and its jobs field: "undefined" (not
\* attached), "[]" or "[...]"
Pipelines == {[id |-> 1, jobs |-> "undefined"], [id |-> 2, jobs |-> "[...]"]}
\* what getLatestPipeline can resolve to, i.e. what the routes pass to setPipeline
PipelineValues == Pipelines \cup {Null}
\* project lists (a project is identified by its path) and branch lists
ProjectLists == {Arr(<<"g/a">>), Arr(<<"g/a", "h/b">>)}
BranchLists == {Arr(<<>>), Arr(<<"main">>)}

\* the steps of the clock: one millisecond, and the shortest default TTL
ClockSteps == {1, DefaultPipelinesTTL * MsPerSecond}

\* the cacheTTL argument of the constructor: a partial record, in seconds
EmptyObject == [k \in {} |-> Null]
CacheTTLInputs ==
  {EmptyObject, [groupsProjects |-> 0, branches |-> 0, pipelines |-> 0]}

VARIABLES
  now,                 \* Date.now()
  ticks,               \* clock advances so far
  ttl,                 \* MultiLevelCacheManager.ttl (milliseconds)
  groupsProjectsFile,  \* .cache/groups-projects.json
  branchesFile,        \* .cache/branches.json
  pipelinesFile,       \* .cache/pipelines.json
  calls,               \* direct calls so far
  last,                \* the last direct call of a cache method, with its result
  requests,            \* HTTP requests received so far
  h,                   \* the request handlers
  sent,                \* the last response sent, with what its handler saw
  statisticsFile,      \* .cache/pipeline-statistics.json
  dataFile,            \* .cache/pipeline-data.json, pipeline-data-jobs.json
  api,                 \* the request of the API server being handled
  monitor              \* the GitLabMonitor of the terminal program

cacheVars == <<now, ticks, ttl, groupsProjectsFile, branchesFile, pipelinesFile>>
callVars == <<calls, last>>
fileVars == <<groupsProjectsFile, branchesFile, pipelinesFile>>
routeVars == <<requests, h, sent>>
legacyVars == <<statisticsFile, dataFile, api, monitor>>

\* ------------------------------------------------------------------------
\* Files: st is "ENOENT" (no file), "json" (a parsable document, obj) or
\* "torn" (a file whose text does not parse)
\* ------------------------------------------------------------------------
NoFile == [st |-> "ENOENT", obj |-> EmptyObject]
TornFile == [st |-> "torn", obj |-> EmptyObject]
JsonFile(o) == [st |-> "json", obj |-> o]

existsSync(file) == file.st # "ENOENT"
\* JSON.parse(fs.readFileSync(file)) throws a SyntaxError on a torn file
ParseThrows(file) == file.st = "torn"
Put(o, k, v) == [j \in DOMAIN o \cup {k} |-> IF j = k THEN v ELSE o[j]]

\* fs.writeFileSync(file, JSON.stringify(cache)): io is the outcome of the
\* system calls: "ok"; "EACCES", open fails and the file is untouched;
\* "ENOSPC", the file was truncated by open and the write failed
IOOutcomes == {"ok", "EACCES", "ENOSPC"}
writeFileSync(file, o, io) ==
  CASE io = "ok" -> JsonFile(o)
    [] io = "EACCES" -> file
    [] io = "ENOSPC" -> TornFile

\* mutant: a TTL of 0 is replaced by the default (|| for ??)
NewTTL_ZeroIsDefault(cacheTTL) ==
  [groupsProjects |->
     (IF "groupsProjects" \in DOMAIN cacheTTL /\ cacheTTL.groupsProjects # 0
      THEN cacheTTL.groupsProjects
      ELSE DefaultGroupsProjectsTTL) * MsPerSecond,
   branches |->
     (IF "branches" \in DOMAIN cacheTTL /\ cacheTTL.branches # 0
      THEN cacheTTL.branches
      ELSE DefaultBranchesTTL) * MsPerSecond,
   pipelines |->
     (IF "pipelines" \in DOMAIN cacheTTL /\ cacheTTL.pipelines # 0
      THEN cacheTTL.pipelines
      ELSE DefaultPipelinesTTL) * MsPerSecond]

\* the constructor: seconds to milliseconds, with the defaults
NewTTL(cacheTTL) ==
  [groupsProjects |->
     (IF "groupsProjects" \in DOMAIN cacheTTL THEN cacheTTL.groupsProjects
      ELSE DefaultGroupsProjectsTTL) * MsPerSecond,
   branches |->
     (IF "branches" \in DOMAIN cacheTTL THEN cacheTTL.branches
      ELSE DefaultBranchesTTL) * MsPerSecond,
   pipelines |->
     (IF "pipelines" \in DOMAIN cacheTTL THEN cacheTTL.pipelines
      ELSE DefaultPipelinesTTL) * MsPerSecond]

\* ------------------------------------------------------------------------
\* MultiLevelCacheManager: the reads
\* ------------------------------------------------------------------------
AbsentResult == [data |-> Null, isStale |-> FALSE, age |-> NoAge]
Thrown == [error |-> "SyntaxError"]

\* the body of the try block of getGroupsProjects
TryGetGroupsProjects(serverName) ==
  IF ~existsSync(groupsProjectsFile) THEN AbsentResult
  ELSE IF ParseThrows(groupsProjectsFile) THEN Thrown
  ELSE LET cache == groupsProjectsFile.obj IN
       IF serverName \notin DOMAIN cache THEN AbsentResult
       ELSE LET entry == cache[serverName]
                age == now - entry.timestamp
            IN [data |-> entry.projects,
                isStale |-> age > ttl.groupsProjects,
                age |-> age]

getGroupsProjects(serverName) ==
  LET r == TryGetGroupsProjects(serverName)
  IN IF r = Thrown THEN AbsentResult ELSE r

\* mutant: an entry whose age equals the TTL is reported stale
TryGetBranches_StaleAtTTL(projectPath) ==
  IF ~existsSync(branchesFile) THEN AbsentResult
  ELSE IF ParseThrows(branchesFile) THEN Thrown
  ELSE LET cache == branchesFile.obj IN
       IF projectPath \notin DOMAIN cache THEN AbsentResult
       ELSE LET entry == cache[projectPath]
                age == now - entry.timestamp
            IN [data |-> entry.branches,
                isStale |-> age >= ttl.branches,
                age |-> age]

\* mutant: the branches are kept in the document of the groups/projects tier
TryGetBranches_ReadsGroupsProjects(projectPath) ==
  IF ~existsSync(groupsProjectsFile) THEN AbsentResult
  ELSE IF ParseThrows(groupsProjectsFile) THEN Thrown
  ELSE LET cache == groupsProjectsFile.obj IN
       IF projectPath \notin DOMAIN cache THEN AbsentResult
       ELSE LET entry == cache[projectPath]
                age == now - entry.timestamp
            IN [data |-> entry.projects,
                isStale |-> age > ttl.branches,
                age |-> age]

TryGetBranches(projectPath) ==
  IF ~existsSync(branchesFile) THEN AbsentResult
  ELSE IF ParseThrows(branchesFile) THEN Thrown
  ELSE LET cache == branchesFile.obj IN
       IF projectPath \notin DOMAIN cache THEN AbsentResult
       ELSE LET entry == cache[projectPath]
                age == now - entry.timestamp
            IN [data |-> entry.branches,
                isStale |-> age > ttl.branches,
                age |-> age]

getBranches(projectPath) ==
  LET r == TryGetBranches(projectPath)
  IN IF r = Thrown THEN AbsentResult ELSE r

\* `${projectPath}:${branchName}`
PipelineKey(projectPath, branchName) == projectPath \o ":" \o branchName

\* entry.pipeline || null
OrNull(v) == IF v \in {Undefined, Null} THEN Null ELSE v

TryGetPipeline(projectPath, branchName, includeJobs) ==
  IF ~existsSync(pipelinesFile) THEN AbsentResult
  ELSE IF ParseThrows(pipelinesFile) THEN Thrown
  ELSE LET cache == pipelinesFile.obj
           key == PipelineKey(projectPath, branchName)
       IN IF key \notin DOMAIN cache THEN AbsentResult
          ELSE LET entry == cache[key]
                   age == now - entry.timestamp
               IN IF entry.includeJobs # includeJobs THEN AbsentResult
                  ELSE [data |-> OrNull(entry.pipeline),
                        isStale |-> age > ttl.pipelines,
                        age |-> age]

\* mutant: the exception of the parse is not caught
getPipeline_NoCatch(projectPath, branchName, includeJobs) ==
  TryGetPipeline(projectPath, branchName, includeJobs)

getPipeline(projectPath, branchName, includeJobs) ==
  LET r == TryGetPipeline(projectPath, branchName, includeJobs)
  IN IF r = Thrown THEN AbsentResult ELSE r

\* ------------------------------------------------------------------------
\* MultiLevelCacheManager: the writes.  Each gives the file after the call;
\* an exception of the parse or of the write is caught and logged.
\* ------------------------------------------------------------------------
\* the document a set starts from: {} without a file, the parsed file else
\* mutant: the entry is not stamped with the current time
setGroupsProjects_NoStamp(serverName, projects, io) ==
  IF existsSync(groupsProjectsFile) /\ ParseThrows(groupsProjectsFile)
  THEN groupsProjectsFile
  ELSE writeFileSync(groupsProjectsFile,
         Put(groupsProjectsFile.obj, serverName,
             [timestamp |-> 0, projects |-> projects]), io)

setGroupsProjects(serverName, projects, io) ==
  IF existsSync(groupsProjectsFile) /\ ParseThrows(groupsProjectsFile)
  THEN groupsProjectsFile
  ELSE writeFileSync(groupsProjectsFile,
         Put(groupsProjectsFile.obj, serverName,
             [timestamp |-> now, projects |-> projects]), io)

\* mutant: the document written holds the new entry only
setBranches_Overwrites(projectPath, branches, io) ==
  IF existsSync(branchesFile) /\ ParseThrows(branchesFile)
  THEN branchesFile
  ELSE writeFileSync(branchesFile,
         Put(EmptyObject, projectPath,
             [timestamp |-> now, branches |-> branches]), io)

\* mutant: a write of the value already stored is skipped
setBranches_SkipsEqual(projectPath, branches, io) ==
  IF existsSync(branchesFile) /\ ParseThrows(branchesFile)
  THEN branchesFile
  ELSE IF projectPath \in DOMAIN branchesFile.obj
          /\ branchesFile.obj[projectPath].branches = branches
  THEN branchesFile
  ELSE writeFileSync(branchesFile,
         Put(branchesFile.obj, projectPath,
             [timestamp |-> now, branches |-> branches]), io)

setBranches(projectPath, branches, io) ==
  IF existsSync(branchesFile) /\ ParseThrows(branchesFile)
  THEN branchesFile
  ELSE writeFileSync(branchesFile,
         Put(branchesFile.obj, projectPath,
             [timestamp |-> now, branches |-> branches]), io)

\* mutant: the entry does not record the includeJobs flag of the write
setPipeline_DropsFlag(projectPath, branchName, pipeline, includeJobs, io) ==
  IF existsSync(pipelinesFile) /\ ParseThrows(pipelinesFile)
  THEN pipelinesFile
  ELSE writeFileSync(pipelinesFile,
         Put(pipelinesFile.obj, PipelineKey(projectPath, branchName),
             [timestamp |-> now, pipeline |-> pipeline,
              includeJobs |-> FALSE]), io)

\* mutant: the document written holds the new entry only
setPipeline_Overwrites(projectPath, branchName, pipeline, includeJobs, io) ==
  IF existsSync(pipelinesFile) /\ ParseThrows(pipelinesFile)
  THEN pipelinesFile
  ELSE writeFileSync(pipelinesFile,
         Put(EmptyObject, PipelineKey(projectPath, branchName),
             [timestamp |-> now, pipeline |-> pipeline,
              includeJobs |-> includeJobs]), io)

\* mutant: an entry already in the document is not replaced
setPipeline_FirstWins(projectPath, branchName, pipeline, includeJobs, io) ==
  IF existsSync(pipelinesFile) /\ ParseThrows(pipelinesFile)
  THEN pipelinesFile
  ELSE IF PipelineKey(projectPath, branchName) \in DOMAIN pipelinesFile.obj
  THEN pipelinesFile
  ELSE writeFileSync(pipelinesFile,
         Put(pipelinesFile.obj, PipelineKey(projectPath, branchName),
             [timestamp |-> now, pipeline |-> pipeline,
              includeJobs |-> includeJobs]), io)

setPipeline(projectPath, branchName, pipeline, includeJobs, io) ==
  IF existsSync(pipelinesFile) /\ ParseThrows(pipelinesFile)
  THEN pipelinesFile
  ELSE writeFileSync(pipelinesFile,
         Put(pipelinesFile.obj, PipelineKey(projectPath, branchName),
             [timestamp |-> now, pipeline |-> pipeline,
              includeJobs |-> includeJobs]), io)

\* clear(): unlink the three files
unlinkSync(file) == IF existsSync(file) THEN NoFile ELSE file

\* ------------------------------------------------------------------------
\* Direct calls of the cache manager (any caller), recorded in last
\* ------------------------------------------------------------------------
\* again: the call before this one had the same method and arguments
NoCall == [op |-> "none", a1 |-> "", a2 |-> "", includeJobs |-> FALSE,
           arg |-> Void, at |-> 0, ret |-> Void, again |-> FALSE]
Call(op, a1, a2, j, arg, ret) ==
  [op |-> op, a1 |-> a1, a2 |-> a2, includeJobs |-> j, arg |-> arg,
   at |-> now, ret |-> ret,
   again |-> (last.op = op /\ last.a1 = a1 /\ last.a2 = a2
              /\ last.includeJobs = j /\ last.arg = arg)]
Record(c) ==
  /\ calls < MaxCalls
  /\ calls' = calls + 1
  /\ last' = c

CallGetGroupsProjects(serverName) ==
  /\ Record(Call("getGroupsProjects", serverName, "", FALSE, Void,
                 getGroupsProjects(serverName)))
  /\ UNCHANGED <<legacyVars, cacheVars, routeVars>>

CallGetBranches(projectPath) ==
  /\ Record(Call("getBranches", projectPath, "", FALSE, Void,
                 getBranches(projectPath)))
  /\ UNCHANGED <<legacyVars, cacheVars, routeVars>>

CallGetPipeline(projectPath, branchName, includeJobs) ==
  /\ Record(Call("getPipeline", projectPath, branchName, includeJobs, Void,
                 getPipeline(projectPath, branchName, includeJobs)))
  /\ UNCHANGED <<legacyVars, cacheVars, routeVars>>

CallSetGroupsProjects(serverName, projects, io) ==
  /\ Record(Call("setGroupsProjects", serverName, "", FALSE, projects, Void))
  /\ groupsProjectsFile' = setGroupsProjects(serverName, projects, io)
  /\ UNCHANGED <<legacyVars, now, ticks, ttl, branchesFile, pipelinesFile, routeVars>>

CallSetBranches(projectPath, branches, io) ==
  /\ Record(Call("setBranches", projectPath, "", FALSE, branches, Void))
  /\ branchesFile' = setBranches(projectPath, branches, io)
  /\ UNCHANGED <<legacyVars, now, ticks, ttl, groupsProjectsFile, pipelinesFile, routeVars>>

CallSetPipeline(projectPath, branchName, pipeline, includeJobs, io) ==
  /\ Record(Call("setPipeline", projectPath, branchName, includeJobs,
                 pipeline, Void))
  /\ pipelinesFile' =
       setPipeline(projectPath, branchName, pipeline, includeJobs, io)
  /\ UNCHANGED <<legacyVars, now, ticks, ttl, groupsProjectsFile, branchesFile, routeVars>>

CallClear ==
  /\ Record(Call("clear", "", "", FALSE, Void, Void))
  /\ groupsProjectsFile' = unlinkSync(groupsProjectsFile)
  /\ branchesFile' = unlinkSync(branchesFile)
  /\ pipelinesFile' = unlinkSync(pipelinesFile)
  /\ UNCHANGED <<legacyVars, now, ticks, ttl, routeVars>>

\* the clock advances
Tick(d) ==
  /\ ticks < MaxTicks
  /\ ticks' = ticks + 1
  /\ now' = now + d
  /\ UNCHANGED <<legacyVars, ttl, fileVars, callVars, routeVars>>

\* ------------------------------------------------------------------------
\* The configuration (config.yaml) and the GitLab API
\* ------------------------------------------------------------------------
\* config.servers: one server, one configured project, one group
ConfigServers ==
  <<[name |-> "gitlab", projects |-> <<"g/a">>, groups |-> <<"h">>]>>
ConfiguredNames == {ConfigServers[i].name : i \in DOMAIN ConfigServers}
ServerConfig(serverName) ==
  ConfigServers[CHOOSE i \in DOMAIN ConfigServers :
                  ConfigServers[i].name = serverName]
\* the server names a request can carry
RequestServerNames == {"gitlab"}

\* config.excludeProjects is not set: no project is excluded
isProjectExcluded(projectPath) == FALSE

Contains(seq, e) == \E i \in DOMAIN seq : seq[i] = e

\* projectPath.split('/')[0], and the projects GitLab lists for a group
GroupOf(projectPath) ==
  CASE projectPath = "g/a" -> "g"
    [] projectPath = "h/b" -> "h"
UpstreamGroup(groupPath) ==
  CASE groupPath = "g" -> Arr(<<"g/a">>)
    [] groupPath = "h" -> Arr(<<"h/b">>)

\* replies of the GitLab API: the HTTP status and, with 200, the body
GroupProjectsReplies(groupPath) ==
  {[status |-> 200, body |-> UpstreamGroup(groupPath)],
   [status |-> 500, body |-> Null]}
AllGroupProjectsReplies ==
  UNION {GroupProjectsReplies(g) : g \in {"g", "h"}}
ProjectReplies == {[status |-> 200, body |-> Null], [status |-> 500, body |-> Null]}
BranchesReplies ==
  {[status |-> 200, body |-> Arr(<<"main">>)],
   [status |-> 500, body |-> Null]}
\* /pipelines?per_page=1
PipelinesReplies ==
  {[status |-> 200, body |-> [id |-> 1, jobs |-> "undefined"]],
   [status |-> 403, body |-> Null],
   [status |-> 500, body |-> Null]}
JobsReplies ==
  {[status |-> 200, body |-> Null], [status |-> 500, body |-> Null]}

\* GitLabClient: what each call resolves to, Thrown when it rejects
getGroupProjects(reply) == IF reply.status = 200 THEN reply.body ELSE Thrown
getProject(reply) == IF reply.status = 200 THEN reply.body ELSE Thrown
clientGetBranches(reply) == IF reply.status = 200 THEN reply.body ELSE Thrown
getLatestPipeline(reply) ==
  CASE reply.status = 200 -> reply.body
    [] reply.status = 403 -> Null
    [] OTHER -> Thrown
getPipelineJobs(reply) ==
  CASE reply.status = 200 -> "[...]"
    [] reply.status = 403 -> "[]"
    [] OTHER -> "throw"

\* ------------------------------------------------------------------------
\* The htmx routes.  A handler runs from the request to its first await, and
\* from the completion of an awaited GitLab call to the next await or to the
\* response; the cache calls are synchronous.  read, failed, overlap, wrote,
\* written and raced observe the handler: what the first cache read found
\* ("Absent", "Stale" or "Fresh"), an upstream call of the request failed
\* (status other than 200), another handler was in flight when the request
\* arrived, the handler called set, and with which value, and the setPipeline
\* of the handler replaced an entry that was not there when it read Absent.
\* ------------------------------------------------------------------------
Handlers == {"h1", "h2"}
NoResponse == [status |-> 0, body |-> Null]
ErrorBody(message) == [error |-> message]
IdleHandler ==
  [pc |-> "idle", route |-> "", serverName |-> "", projectPath |-> "",
   branchName |-> "", includeJobs |-> FALSE, forceRefresh |-> FALSE,
   cacheResult |-> AbsentResult, shown |-> Null, isRefreshing |-> FALSE,
   all |-> <<>>, idx |-> 0, projects |-> <<>>, freshPipeline |-> Null,
   read |-> "", failed |-> FALSE, overlap |-> FALSE, wrote |-> FALSE,
   written |-> Null, raced |-> FALSE, res |-> NoResponse]

InFlight(x) == h[x].pc # "idle"

\* res.send(html) / res.status(500).send(html)
Send(r, status, body) ==
  [r EXCEPT !.pc = "done", !.res = [status |-> status, body |-> body]]

\* what is kept of a handler once its response is sent
Summary(r) ==
  [route |-> r.route, serverName |-> r.serverName,
   projectPath |-> r.projectPath, branchName |-> r.branchName,
   includeJobs |-> r.includeJobs, forceRefresh |-> r.forceRefresh,
   read |-> r.read, cached |-> r.cacheResult.data, failed |-> r.failed,
   overlap |-> r.overlap, wrote |-> r.wrote, written |-> r.written,
   raced |-> r.raced, res |-> r.res]

\* handler x goes on as r, or has sent its response and returns
Step(x, r) ==
  IF r.pc = "done"
  THEN /\ h' = [h EXCEPT ![x] = IdleHandler]
       /\ sent' = Summary(r)
  ELSE /\ h' = [h EXCEPT ![x] = r]
       /\ UNCHANGED sent

\* a request arrives and is served by handler x, the first one that is free
Accept(x) ==
  /\ ~InFlight(x)
  /\ x = "h1" \/ InFlight("h1")
  /\ requests < MaxRequests
  /\ requests' = requests + 1

\* Absent: no data; Stale: data older than the TTL; Fresh: data, not stale
Classify(cacheResult) ==
  IF cacheResult.data = Null THEN "Absent"
  ELSE IF cacheResult.isStale THEN "Stale" ELSE "Fresh"

NewHandler(x, route, cacheResult) ==
  [IdleHandler EXCEPT !.route = route, !.cacheResult = cacheResult,
                      !.read = Classify(cacheResult),
                      !.overlap = \E y \in Handlers \ {x} : InFlight(y)]

\* projectsRes.data?.find(p => p.path === projectPath)
FindInCache(serverName, projectPath) ==
  LET d == getGroupsProjects(serverName).data
  IN d # Null /\ Contains(d.array, projectPath)

\* GET /branches/{projectPath}/{branchName}: up to the first await
BranchRoute(x, projectPath, branchName, includeJobs) ==
  /\ Accept(x)
  /\ LET cacheResult == getPipeline(projectPath, branchName, includeJobs)
         alt == getPipeline(projectPath, branchName, TRUE)
         pipeline == IF cacheResult.data = Null /\ ~includeJobs
                        /\ alt.data # Null
                     THEN alt.data ELSE cacheResult.data
         r == [NewHandler(x, "branches", cacheResult) EXCEPT
                 !.projectPath = projectPath, !.branchName = branchName,
                 !.includeJobs = includeJobs, !.shown = pipeline,
                 !.isRefreshing =
                    (cacheResult.data = Null \/ cacheResult.isStale)
                    /\ cacheResult.isStale /\ cacheResult.data # Null]
     IN Step(x,
               IF cacheResult.data = Null \/ cacheResult.isStale
               THEN IF \E i \in DOMAIN ConfigServers :
                         FindInCache(ConfigServers[i].name, projectPath)
                    THEN [r EXCEPT !.pc = "getLatestPipeline"]
                    ELSE [r EXCEPT !.pc = "getGroupProjects"]
               ELSE Send(r, 200, pipeline))
  /\ UNCHANGED <<legacyVars, cacheVars, callVars>>

\* mutant: the response shows the pipeline read from the cache
BranchFinish_ShowsCached(r, freshPipeline) ==
  Send([r EXCEPT !.freshPipeline = freshPipeline, !.wrote = TRUE,
                 !.written = freshPipeline], 200, r.shown)

\* cache.setPipeline(...), the choice of the pipeline to show, and res.send
BranchFinish(r, freshPipeline) ==
  LET shown == IF ~r.isRefreshing THEN freshPipeline ELSE r.shown
  IN Send([r EXCEPT !.freshPipeline = freshPipeline, !.wrote = TRUE,
                    !.written = freshPipeline, !.shown = shown,
                    !.raced = r.read = "Absent"
                              /\ getPipeline(r.projectPath, r.branchName,
                                             r.includeJobs) # AbsentResult],
          200, shown)

\* await client.getGroupProjects(...) of the fallback completes
BranchGroupProjectsDone(x, reply) ==
  /\ h[x].route = "branches"
  /\ h[x].pc = "getGroupProjects"
  /\ reply \in GroupProjectsReplies(GroupOf(h[x].projectPath))
  /\ LET r == [h[x] EXCEPT !.failed = @ \/ reply.status # 200]
         projects == getGroupProjects(reply)
     IN Step(x,
               IF projects = Thrown
               THEN Send(r, 500, ErrorBody("Failed to fetch group projects"))
               ELSE IF ~Contains(projects.array, r.projectPath)
               THEN Send(r, 500, ErrorBody("Project not found"))
               ELSE [r EXCEPT !.pc = "getLatestPipeline"])
  /\ UNCHANGED <<legacyVars, cacheVars, callVars, requests>>

\* await client.getLatestPipeline(...) completes
BranchLatestPipelineDone(x, reply) ==
  /\ h[x].route = "branches"
  /\ h[x].pc = "getLatestPipeline"
  /\ LET r == [h[x] EXCEPT !.failed = @ \/ reply.status # 200]
         freshPipeline == getLatestPipeline(reply)
     IN IF freshPipeline = Thrown
        THEN /\ Step(x,
                       Send(r, 500, ErrorBody("Failed to fetch pipeline")))
             /\ UNCHANGED pipelinesFile
        ELSE IF r.includeJobs /\ freshPipeline # Null
        THEN /\ Step(x,
                       [r EXCEPT !.pc = "getPipelineJobs",
                                 !.freshPipeline = freshPipeline])
             /\ UNCHANGED pipelinesFile
        ELSE /\ pipelinesFile' =
                  setPipeline(r.projectPath, r.branchName, freshPipeline,
                              r.includeJobs, "ok")
             /\ Step(x, BranchFinish(r, freshPipeline))
  /\ UNCHANGED <<legacyVars, now, ticks, ttl, groupsProjectsFile, branchesFile,
                 callVars, requests>>

\* await client.getPipelineJobs(...) completes
BranchPipelineJobsDone(x, reply) ==
  /\ h[x].route = "branches"
  /\ h[x].pc = "getPipelineJobs"
  /\ LET r == [h[x] EXCEPT !.failed = @ \/ reply.status # 200]
         jobs == getPipelineJobs(reply)
         freshPipeline == [r.freshPipeline EXCEPT !.jobs = jobs]
     IN IF jobs = "throw"
        THEN /\ Step(x,
                       Send(r, 500, ErrorBody("Failed to fetch pipeline jobs")))
             /\ UNCHANGED pipelinesFile
        ELSE /\ pipelinesFile' =
                  setPipeline(r.projectPath, r.branchName, freshPipeline,
                              r.includeJobs, "ok")
             /\ Step(x, BranchFinish(r, freshPipeline))
  /\ UNCHANGED <<legacyVars, now, ticks, ttl, groupsProjectsFile, branchesFile,
                 callVars, requests>>

\* GET /projects/{serverName}/{projectPath}/branches: up to the first await
ProjectBranchesRoute(x, serverName, projectPath) ==
  /\ Accept(x)
  /\ LET branchesResult == getBranches(projectPath)
         branches == branchesResult.data
         r == [NewHandler(x, "projects", branchesResult) EXCEPT
                 !.serverName = serverName, !.projectPath = projectPath,
                 !.shown = branches]
     IN Step(x,
               IF branches = Null \/ branchesResult.isStale
               THEN IF serverName \notin ConfiguredNames
                    THEN Send(r, 500, ErrorBody("Server not found"))
                    ELSE IF ~FindInCache(serverName, projectPath)
                    THEN Send(r, 500, ErrorBody("Project not found in cache"))
                    ELSE [r EXCEPT !.pc = "getBranches"]
               ELSE Send(r, 200, branches))
  /\ UNCHANGED <<legacyVars, cacheVars, callVars>>

\* await client.getBranches(projectInfo.id) completes
ProjectBranchesDone(x, reply) ==
  /\ h[x].route = "projects"
  /\ h[x].pc = "getBranches"
  /\ LET r == [h[x] EXCEPT !.failed = @ \/ reply.status # 200]
         freshBranches == clientGetBranches(reply)
         branches == IF ~r.cacheResult.isStale \/ r.shown = Null
                     THEN freshBranches ELSE r.shown
     IN IF freshBranches = Thrown
        THEN /\ Step(x,
                       Send(r, 500, ErrorBody("Failed to fetch branches")))
             /\ UNCHANGED branchesFile
        ELSE /\ branchesFile' = setBranches(r.projectPath, freshBranches, "ok")
             /\ Step(x,
                       Send([r EXCEPT !.wrote = TRUE, !.written = freshBranches,
                             !.shown = branches],
                            200, branches))
  /\ UNCHANGED <<legacyVars, now, ticks, ttl, groupsProjectsFile, pipelinesFile,
                 callVars, requests>>

\* GET /servers/{serverName}: up to the first await
ServerRoute(x, serverName, forceRefresh) ==
  /\ Accept(x)
  /\ LET projectsResult == getGroupsProjects(serverName)
         projects == projectsResult.data
         hasCache == projects # Null
         r == [NewHandler(x, "servers", projectsResult) EXCEPT
                 !.serverName = serverName, !.forceRefresh = forceRefresh,
                 !.shown = projects]
     IN Step(x,
               IF hasCache /\ ~forceRefresh THEN Send(r, 200, projects)
               ELSE IF serverName \notin ConfiguredNames
               THEN Send(r, 500, ErrorBody("Server not found"))
               ELSE LET server == ServerConfig(serverName)
                    IN [r EXCEPT !.all = server.projects, !.idx = 1,
                                 !.pc = IF Len(server.groups) > 0
                                        THEN "getGroupProjects"
                                        ELSE "getProject"])
  /\ UNCHANGED <<legacyVars, cacheVars, callVars>>

\* await client.getGroupProjects(groupConfig) of the group loop completes;
\* a failure is logged and the loop goes on
ServerGroupProjectsDone(x, reply) ==
  /\ h[x].route = "servers"
  /\ h[x].pc = "getGroupProjects"
  /\ reply \in GroupProjectsReplies(
                  ServerConfig(h[x].serverName).groups[h[x].idx])
  /\ LET r == [h[x] EXCEPT !.failed = @ \/ reply.status # 200]
         server == ServerConfig(r.serverName)
         groupProjects == getGroupProjects(reply)
         all == IF groupProjects = Thrown THEN r.all
                ELSE r.all \o groupProjects.array
     IN Step(x,
               IF r.idx < Len(server.groups)
               THEN [r EXCEPT !.all = all, !.idx = @ + 1]
               ELSE [r EXCEPT !.all = all, !.idx = 1, !.pc = "getProject"])
  /\ UNCHANGED <<legacyVars, cacheVars, callVars, requests>>

\* await client.getProject(projectConfig) of the project loop completes; a
\* failure is logged and the loop goes on; after the last project the list
\* is cached and the response is sent
ServerProjectDone(x, reply) ==
  /\ h[x].route = "servers"
  /\ h[x].pc = "getProject"
  /\ LET r == [h[x] EXCEPT !.failed = @ \/ reply.status # 200]
         project == getProject(reply)
         projects == IF project = Thrown \/ isProjectExcluded(r.all[r.idx])
                     THEN r.projects
                     ELSE Append(r.projects, r.all[r.idx])
     IN IF r.idx < Len(r.all)
        THEN /\ Step(x,
                       [r EXCEPT !.projects = projects, !.idx = @ + 1])
             /\ UNCHANGED groupsProjectsFile
        ELSE /\ groupsProjectsFile' =
                  setGroupsProjects(r.serverName, Arr(projects), "ok")
             /\ Step(x,
                       Send([r EXCEPT !.projects = projects, !.wrote = TRUE,
                                      !.written = Arr(projects),
                                      !.shown = Arr(projects)],
                            200, Arr(projects)))
  /\ UNCHANGED <<legacyVars, now, ticks, ttl, branchesFile, pipelinesFile,
                 callVars, requests>>

\* the clock step used with the routes: past the pipelines TTL
RouteClockStep == DefaultPipelinesTTL * MsPerSecond + 1

vars == <<cacheVars, callVars, routeVars, legacyVars>>

\* the request of the API server being handled: route, force and includeJobs as received; exclude is
\* config.excludeProjects; queue is what is left of allProjectConfigs;
\* events are the events written and ended tells that res.end() was called;
\* res is the response of /api/pipelines.  hit, upstream, stored and log
\* observe the handler: the first cache read found data, a GitLab call was
\* made, the data passed to cache.set, and for each project handled its
\* ProjectConfig, whether getProject or getBranches failed, whether it was
\* excluded, whether the statistics block of its branch was reached, whether
\* the statistics document could not be parsed then, what getStatistics
\* returned, the status of the recent pipelines request, whether the block
\* threw and whether it changed the statistics document.
IdleApi ==
  [pc |-> "idle", route |-> "", force |-> FALSE, includeJobs |-> FALSE,
   exclude |-> <<>>, queue |-> <<>>, projects |-> <<>>, startTime |-> 0,
   events |-> <<>>, ended |-> FALSE, res |-> NoResponse,
   hit |-> FALSE, upstream |-> FALSE, stored |-> Null, log |-> <<>>]

\* GitLabMonitor after construction.  start and callback are the positions
\* of start() and of the timer callback ("refresh": awaiting this.refresh());
\* refreshTimer is "undefined", "live" (the handle of a pending timeout) or
\* "dead" (the handle of a timeout that has fired or was cleared); timers
\* counts the pending timeouts; body is the await each caller's refresh body
\* is at, "none" when it runs none.  stopped, fires, manual, invoked,
\* upstream, failed, threw and event observe the monitor: stop() was called, the
\* timeouts fired, the calls of refresh() by other callers, all calls of
\* refresh(), the GitLab calls issued, a group fetch failed, a body threw,
\* and what the last step did.
Callers == {"start", "timer", "manual"}
IdleMonitor ==
  [start |-> "idle", callback |-> "idle", refreshTimer |-> "undefined",
   timers |-> 0, isRefreshing |-> FALSE, body |-> [c \in Callers |-> "none"],
   stopped |-> FALSE, fires |-> 0, manual |-> 0, invoked |-> 0,
   upstream |-> 0, failed |-> FALSE, threw |-> FALSE, event |-> "none"]

\* the files of CacheManager on an empty cache directory, no request, and
\* the monitor as constructed
InitLegacy ==
  /\ statisticsFile = NoFile
  /\ dataFile = [includeJobs \in BOOLEAN |-> NoFile]
  /\ api = IdleApi
  /\ monitor = IdleMonitor

\* after construction on an empty cache directory
Init ==
  /\ now = 0
  /\ ticks = 0
  /\ ttl \in {NewTTL(c) : c \in CacheTTLInputs}
  /\ groupsProjectsFile = NoFile
  /\ branchesFile = NoFile
  /\ pipelinesFile = NoFile
  /\ calls = 0
  /\ last = NoCall
  /\ requests = 0
  /\ h = [x \in Handlers |-> IdleHandler]
  /\ sent = Summary(IdleHandler)
  /\ InitLegacy

Next ==
  \/ \E s \in ServerNames : CallGetGroupsProjects(s)
  \/ \E p \in ProjectPaths : CallGetBranches(p)
  \/ \E p \in ProjectPaths, b \in BranchNames, j \in BOOLEAN :
       CallGetPipeline(p, b, j)
  \/ \E s \in ServerNames, v \in ProjectLists :
       CallSetGroupsProjects(s, v, "ok")
  \/ \E p \in ProjectPaths, v \in BranchLists : CallSetBranches(p, v, "ok")
  \/ \E p \in ProjectPaths, b \in BranchNames, v \in PipelineValues,
        j \in BOOLEAN : CallSetPipeline(p, b, v, j, "ok")
  \/ CallClear
  \/ \E d \in ClockSteps : Tick(d)

Spec == Init /\ [][Next]_vars

\* ------------------------------------------------------------------------
\* Storage faults: a write of a tier document can fail (io), and the cache
\* directory found at construction can hold a document torn by a crash of
\* an earlier run in the middle of writeFileSync
\* ------------------------------------------------------------------------
FilesAtStart == {NoFile, TornFile}
FaultProject == "g/a"

InitFault ==
  /\ now = 0
  /\ ticks = 0
  /\ ttl = NewTTL(EmptyObject)
  /\ groupsProjectsFile \in FilesAtStart
  /\ branchesFile \in FilesAtStart
  /\ pipelinesFile \in FilesAtStart
  /\ calls = 0
  /\ last = NoCall
  /\ requests = 0
  /\ h = [x \in Handlers |-> IdleHandler]
  /\ sent = Summary(IdleHandler)
  /\ InitLegacy

NextFault ==
  \/ \E s \in ServerNames : CallGetGroupsProjects(s)
  \/ CallGetBranches(FaultProject)
  \/ \E b \in BranchNames, j \in BOOLEAN : CallGetPipeline(FaultProject, b, j)
  \/ \E s \in ServerNames, io \in IOOutcomes :
       CallSetGroupsProjects(s, Arr(<<"g/a">>), io)
  \/ \E io \in IOOutcomes : CallSetBranches(FaultProject, Arr(<<"main">>), io)
  \/ \E b \in BranchNames, j \in BOOLEAN, io \in IOOutcomes :
       CallSetPipeline(FaultProject, b, [id |-> 1, jobs |-> "undefined"], j, io)
  \/ CallClear
  \/ Tick(DefaultPipelinesTTL * MsPerSecond + 1)

SpecFault == InitFault /\ [][NextFault]_vars

\* the routes module constructs the cache manager with the default TTLs
InitRoutes ==
  /\ now = 0
  /\ ticks = 0
  /\ ttl = NewTTL(EmptyObject)
  /\ groupsProjectsFile = NoFile
  /\ branchesFile = NoFile
  /\ pipelinesFile = NoFile
  /\ calls = 0
  /\ last = NoCall
  /\ requests = 0
  /\ h = [x \in Handlers |-> IdleHandler]
  /\ sent = Summary(IdleHandler)
  /\ InitLegacy

NextRoutes ==
  \/ \E x \in Handlers, p \in ProjectPaths, b \in BranchNames, j \in BOOLEAN :
       BranchRoute(x, p, b, j)
  \/ \E x \in Handlers, reply \in AllGroupProjectsReplies :
       BranchGroupProjectsDone(x, reply)
  \/ \E x \in Handlers, reply \in PipelinesReplies :
       BranchLatestPipelineDone(x, reply)
  \/ \E x \in Handlers, reply \in JobsReplies :
       BranchPipelineJobsDone(x, reply)
  \/ \E x \in Handlers, s \in RequestServerNames, p \in ProjectPaths :
       ProjectBranchesRoute(x, s, p)
  \/ \E x \in Handlers, reply \in BranchesReplies :
       ProjectBranchesDone(x, reply)
  \/ \E x \in Handlers, s \in RequestServerNames, f \in BOOLEAN :
       ServerRoute(x, s, f)
  \/ \E x \in Handlers, reply \in AllGroupProjectsReplies :
       ServerGroupProjectsDone(x, reply)
  \/ \E x \in Handlers, reply \in ProjectReplies : ServerProjectDone(x, reply)
  \/ Tick(RouteClockStep)

SpecRoutes == InitRoutes /\ [][NextRoutes]_vars

\* ------------------------------------------------------------------------
\* Claims about the cache manager
\* ------------------------------------------------------------------------
TierTTL(op) ==
  CASE op \in {"setGroupsProjects", "getGroupsProjects"} -> ttl.groupsProjects
    [] op \in {"setBranches", "getBranches"} -> ttl.branches
    [] OTHER -> ttl.pipelines

\* what a get of the key of the last call returns now
GetOfLast ==
  CASE last.op \in {"setGroupsProjects", "getGroupsProjects"} ->
         getGroupsProjects(last.a1)
    [] last.op \in {"setBranches", "getBranches"} -> getBranches(last.a1)
    [] OTHER -> getPipeline(last.a1, last.a2, last.includeJobs)

SetOps == {"setGroupsProjects", "setBranches", "setPipeline"}
GetOps == {"getGroupsProjects", "getBranches", "getPipeline"}

\* C1: in every tier, a get that follows a set of the same key (same
\* includeJobs flag) with no call in between and the clock not past the TTL
\* returns isStale = FALSE and the value that was written.
C1_ReadAfterWrite ==
  (last.op \in SetOps /\ now - last.at <= TierTTL(last.op))
    => GetOfLast = [data |-> last.arg, isStale |-> FALSE,
                    age |-> now - last.at]

C1_Witness ==
  /\ last.op = "setPipeline"
  /\ last.arg # Null
  /\ last.includeJobs
  /\ ticks > 0
  /\ now - last.at = ttl.pipelines

\* C2: in every tier a get reports isStale exactly when the age of the entry
\* is strictly greater than the TTL; a stale get returns the stored data and
\* the entry stays in the store.
C2_StaleIffOlderThanTTL ==
  /\ last.op \in SetOps =>
       /\ GetOfLast.isStale = (now - last.at > TierTTL(last.op))
       /\ GetOfLast.data = last.arg
  /\ (last.op \in GetOps /\ last.ret.isStale) =>
       /\ last.ret.age > TierTTL(last.op)
       /\ GetOfLast.data = last.ret.data
       /\ GetOfLast.age = last.ret.age + (now - last.at)
  /\ (last.op \in GetOps /\ last.ret.age # NoAge /\ ~last.ret.isStale) =>
       last.ret.age <= TierTTL(last.op)

C2_Witness ==
  /\ last.op = "getPipeline"
  /\ last.ret.isStale
  /\ last.ret.data # Null
  /\ last.ret.age = ttl.pipelines + 1
  /\ ttl.pipelines = DefaultPipelinesTTL * MsPerSecond

\* C3 (as claimed): a setPipeline with one value of includeJobs never changes
\* what getPipeline returns for the other value of the flag.
C3_FlagsAreDistinctEntries ==
  [][\A p \in ProjectPaths, b \in BranchNames, v \in PipelineValues,
       j \in BOOLEAN :
       CallSetPipeline(p, b, v, j, "ok")
         => getPipeline(p, b, ~j).data' = getPipeline(p, b, ~j).data]_vars

\* C10: a tier whose document is missing or does not parse reads as Absent
\* for every key, without an exception; the tiers whose document parses
\* still return their entries.
C10_ReadsFailOpen ==
  /\ (~existsSync(groupsProjectsFile) \/ ParseThrows(groupsProjectsFile))
       => \A s \in ServerNames : getGroupsProjects(s) = AbsentResult
  /\ (~existsSync(branchesFile) \/ ParseThrows(branchesFile))
       => \A p \in ProjectPaths : getBranches(p) = AbsentResult
  /\ (~existsSync(pipelinesFile) \/ ParseThrows(pipelinesFile))
       => \A p \in ProjectPaths, b \in BranchNames, j \in BOOLEAN :
            getPipeline(p, b, j) = AbsentResult
  /\ last.op \in GetOps => last.ret # Thrown
  /\ \A s \in DOMAIN groupsProjectsFile.obj :
       getGroupsProjects(s).data = groupsProjectsFile.obj[s].projects
  /\ \A p \in DOMAIN branchesFile.obj :
       getBranches(p).data = branchesFile.obj[p].branches
  /\ \A p \in ProjectPaths, b \in BranchNames :
       PipelineKey(p, b) \in DOMAIN pipelinesFile.obj =>
         LET e == pipelinesFile.obj[PipelineKey(p, b)]
         IN getPipeline(p, b, e.includeJobs).data = OrNull(e.pipeline)

C10_Witness ==
  /\ ParseThrows(pipelinesFile)
  /\ ~existsSync(groupsProjectsFile)
  /\ FaultProject \in DOMAIN branchesFile.obj
  /\ last.op = "getPipeline"
  /\ last.ret = AbsentResult

\* ------------------------------------------------------------------------
\* Claims about the htmx routes
\* ------------------------------------------------------------------------
Keys(file) == IF file.st = "json" THEN DOMAIN file.obj ELSE {}

\* from file f to file g every key is kept and at most one entry differs
Preserved(f, g) ==
  /\ Keys(f) \subseteq Keys(g)
  /\ Cardinality({k \in Keys(g) : k \notin Keys(f) \/ g.obj[k] # f.obj[k]}) <= 1

\* handler x sends its response in this step
Responds(x) == InFlight(x) /\ h'[x].pc = "idle"

\* handler record r is waiting for a call of the GitLab API
Awaiting(r) ==
  r.pc \in {"getGroupProjects", "getProject", "getBranches",
            "getLatestPipeline", "getPipelineJobs"}

\* C4: handlers in flight together that write different keys of one tier
\* document lose nothing: every step keeps every key of every tier document
\* and changes at most one entry of it, and a handler that has written
\* leaves the entry of its key in the document with the value it wrote.
C4_NoLostUpdate ==
  [][/\ Preserved(groupsProjectsFile, groupsProjectsFile')
     /\ Preserved(branchesFile, branchesFile')
     /\ Preserved(pipelinesFile, pipelinesFile')
     /\ \A x \in Handlers :
          (Responds(x) /\ sent'.wrote) =>
            CASE sent'.route = "branches" ->
                   LET k == PipelineKey(sent'.projectPath, sent'.branchName)
                   IN /\ k \in Keys(pipelinesFile')
                      /\ pipelinesFile'.obj[k].pipeline = sent'.written
              [] sent'.route = "projects" ->
                   /\ sent'.projectPath \in Keys(branchesFile')
                   /\ branchesFile'.obj[sent'.projectPath].branches
                        = sent'.written
              [] OTHER ->
                   /\ sent'.serverName \in Keys(groupsProjectsFile')
                   /\ groupsProjectsFile'.obj[sent'.serverName].projects
                        = sent'.written]_vars

\* two requests for two branches' pipelines were in flight together and
\* both have written
C4_Witness ==
  /\ requests = 2
  /\ sent.route = "branches"
  /\ sent.wrote
  /\ sent.overlap
  /\ \A x \in Handlers : ~InFlight(x)
  /\ Cardinality(Keys(pipelinesFile)) = 2

\* C5 (as claimed): no two handlers wait at the same time for the same call
\* of the GitLab API made to refill the same key of the same tier.
C5_OneFetchPerKey ==
  \A x, y \in Handlers :
    (x # y /\ Awaiting(h[x]) /\ Awaiting(h[y]) /\ h[x].pc = h[y].pc)
      => <<h[x].route, h[x].serverName, h[x].projectPath, h[x].branchName,
           h[x].includeJobs>>
         # <<h[y].route, h[y].serverName, h[y].projectPath, h[y].branchName,
             h[y].includeJobs>>

\* C6 (as claimed): a handler of the pipelines or branches route that read
\* a Stale entry has sent its response whenever it waits for the GitLab API.
C6_StaleAnsweredAtOnce ==
  \A x \in Handlers :
    (h[x].route \in {"branches", "projects"} /\ h[x].read = "Stale"
       /\ Awaiting(h[x]))
      => h[x].res # NoResponse

C8_FailedFetchNeverWrites ==
  [][\A x \in Handlers :
       (Responds(x) /\ sent'.failed) =>
         \A s \in RequestServerNames, p \in ProjectPaths,
            b \in BranchNames, j \in BOOLEAN :
           /\ (sent'.route = "branches" /\ sent'.projectPath = p
                 /\ sent'.branchName = b /\ sent'.includeJobs = j)
                => getPipeline(p, b, j).data' = getPipeline(p, b, j).data
           /\ (sent'.route = "projects" /\ sent'.projectPath = p)
                => getBranches(p).data' = getBranches(p).data
           /\ (sent'.route = "servers" /\ sent'.serverName = s)
                => getGroupsProjects(s).data' = getGroupsProjects(s).data]_vars

\* C9 (as claimed): a request that found data for its key in the cache and
\* one of whose calls of the GitLab API failed is answered 200 with the
\* cached data.
C9_CachedDataBeatsError ==
  (sent.read \in {"Stale", "Fresh"} /\ sent.failed)
    => (sent.res.status = 200 /\ sent.res.body = sent.cached)

\* ------------------------------------------------------------------------
\* Claims about the cache manager under storage faults
\* ------------------------------------------------------------------------
\* C11 (as claimed): a set whose write to the disk succeeds ends the
\* degradation of a tier: right after it a get of the key written returns
\* the value written, with isStale = FALSE.
C11_RecoversOnCleanWrite ==
  [][/\ \A s \in ServerNames :
          CallSetGroupsProjects(s, Arr(<<"g/a">>), "ok")
            => getGroupsProjects(s)'
                 = [data |-> Arr(<<"g/a">>), isStale |-> FALSE, age |-> 0]
     /\ CallSetBranches(FaultProject, Arr(<<"main">>), "ok")
          => getBranches(FaultProject)'
               = [data |-> Arr(<<"main">>), isStale |-> FALSE, age |-> 0]
     /\ \A b \in BranchNames, j \in BOOLEAN :
          CallSetPipeline(FaultProject, b, [id |-> 1, jobs |-> "undefined"],
                          j, "ok")
            => getPipeline(FaultProject, b, j)'
                 = [data |-> [id |-> 1, jobs |-> "undefined"],
                    isStale |-> FALSE, age |-> 0]]_vars

\* ------------------------------------------------------------------------
\* The /branches route alone, with a GitLab API that answers every
\* /pipelines request with 200 (a pipeline, or the empty list of a branch
\* that has no pipeline) or with 500
\* ------------------------------------------------------------------------
\* /pipelines?per_page=1: Null stands for the empty list
BranchPipelinesReplies ==
  {[status |-> 200, body |-> [id |-> 1, jobs |-> "undefined"]],
   [status |-> 200, body |-> Null],
   [status |-> 500, body |-> Null]}

NextBranches ==
  \/ \E x \in Handlers, p \in ProjectPaths, b \in BranchNames, j \in BOOLEAN :
       BranchRoute(x, p, b, j)
  \/ \E x \in Handlers, reply \in AllGroupProjectsReplies :
       BranchGroupProjectsDone(x, reply)
  \/ \E x \in Handlers, reply \in BranchPipelinesReplies :
       BranchLatestPipelineDone(x, reply)
  \/ \E x \in Handlers, reply \in JobsReplies :
       BranchPipelineJobsDone(x, reply)
  \/ Tick(RouteClockStep)

SpecBranches == InitRoutes /\ [][NextBranches]_vars

\* the pipelines tier holds an entry written with this flag for the key,
\* not older than the TTL
FreshPipelineEntry(projectPath, branchName, includeJobs) ==
  LET k == PipelineKey(projectPath, branchName)
  IN /\ k \in Keys(pipelinesFile)
     /\ pipelinesFile.obj[k].includeJobs = includeJobs
     /\ now - pipelinesFile.obj[k].timestamp <= ttl.pipelines

\* C12 (as claimed): a request for a key whose refill has completed (the
\* tier holds an entry written with the same includeJobs flag, not older
\* than the TTL) is answered 200 at once: its handler waits for no call of
\* the GitLab API and writes nothing.
C12_FreshNoRefill ==
  [][\A x \in Handlers, p \in ProjectPaths, b \in BranchNames, j \in BOOLEAN :
       (BranchRoute(x, p, b, j) /\ FreshPipelineEntry(p, b, j))
         => /\ h'[x].pc = "idle"
            /\ sent'.res.status = 200
            /\ ~sent'.wrote]_vars

\* ------------------------------------------------------------------------
\* MultiLevelCacheManager: the age queries
\* ------------------------------------------------------------------------
\* Math.floor((Date.now() - entry.timestamp) / 1000), null without an entry
Seconds(n) == [seconds |-> n]

getGroupsProjectsAge(serverName) ==
  IF ~existsSync(groupsProjectsFile) \/ ParseThrows(groupsProjectsFile)
  THEN Null
  ELSE IF serverName \notin DOMAIN groupsProjectsFile.obj THEN Null
  ELSE Seconds((now - groupsProjectsFile.obj[serverName].timestamp)
                 \div MsPerSecond)

getBranchesAge(projectPath) ==
  IF ~existsSync(branchesFile) \/ ParseThrows(branchesFile) THEN Null
  ELSE IF projectPath \notin DOMAIN branchesFile.obj THEN Null
  ELSE Seconds((now - branchesFile.obj[projectPath].timestamp)
                 \div MsPerSecond)

getPipelineAge(projectPath, branchName) ==
  LET key == PipelineKey(projectPath, branchName)
  IN IF ~existsSync(pipelinesFile) \/ ParseThrows(pipelinesFile) THEN Null
     ELSE IF key \notin DOMAIN pipelinesFile.obj THEN Null
     ELSE Seconds((now - pipelinesFile.obj[key].timestamp) \div MsPerSecond)

CallGetGroupsProjectsAge(serverName) ==
  /\ Record(Call("getGroupsProjectsAge", serverName, "", FALSE, Void,
                 getGroupsProjectsAge(serverName)))
  /\ UNCHANGED <<legacyVars, cacheVars, routeVars>>

CallGetBranchesAge(projectPath) ==
  /\ Record(Call("getBranchesAge", projectPath, "", FALSE, Void,
                 getBranchesAge(projectPath)))
  /\ UNCHANGED <<legacyVars, cacheVars, routeVars>>

CallGetPipelineAge(projectPath, branchName) ==
  /\ Record(Call("getPipelineAge", projectPath, branchName, FALSE, Void,
                 getPipelineAge(projectPath, branchName)))
  /\ UNCHANGED <<legacyVars, cacheVars, routeVars>>

\* ------------------------------------------------------------------------
\* The cache manager called with keys whose strings are the same in the
\* three tiers: a server, a project and a project:branch key can all be
\* named "g/a" or "g/a:main"
\* ------------------------------------------------------------------------
SharedKeys == {"g/a", "g/a:main"}
StoreProject == "g/a"
StoreBranch == "main"

NextStore ==
  \/ \E k \in SharedKeys : CallGetGroupsProjects(k)
  \/ \E k \in SharedKeys : CallGetBranches(k)
  \/ \E j \in BOOLEAN : CallGetPipeline(StoreProject, StoreBranch, j)
  \/ \E k \in SharedKeys : CallGetGroupsProjectsAge(k)
  \/ \E k \in SharedKeys : CallGetBranchesAge(k)
  \/ CallGetPipelineAge(StoreProject, StoreBranch)
  \/ \E k \in SharedKeys, v \in ProjectLists : CallSetGroupsProjects(k, v, "ok")
  \/ \E k \in SharedKeys, v \in BranchLists : CallSetBranches(k, v, "ok")
  \/ \E v \in PipelineValues, j \in BOOLEAN :
       CallSetPipeline(StoreProject, StoreBranch, v, j, "ok")
  \/ CallClear
  \/ \E d \in ClockSteps : Tick(d)

SpecStore == InitRoutes /\ [][NextStore]_vars

\* what the gets of each tier return, for every key
GroupsProjectsView == [k \in SharedKeys |-> getGroupsProjects(k)]
BranchesView == [k \in SharedKeys |-> getBranches(k)]
PipelinesView ==
  [j \in BOOLEAN |-> getPipeline(StoreProject, StoreBranch, j)]

\* C13: a set in one tier changes the result of no get in another tier,
\* also for a key whose string is a key of the other tiers.
C13_TiersIsolated ==
  [][/\ (\E k \in SharedKeys, v \in ProjectLists :
           CallSetGroupsProjects(k, v, "ok"))
          => /\ BranchesView' = BranchesView
             /\ PipelinesView' = PipelinesView
     /\ (\E k \in SharedKeys, v \in BranchLists : CallSetBranches(k, v, "ok"))
          => /\ GroupsProjectsView' = GroupsProjectsView
             /\ PipelinesView' = PipelinesView
     /\ (\E v \in PipelineValues, j \in BOOLEAN :
           CallSetPipeline(StoreProject, StoreBranch, v, j, "ok"))
          => /\ GroupsProjectsView' = GroupsProjectsView
             /\ BranchesView' = BranchesView]_vars

\* the key "g/a:main" holds an entry in the groups/projects tier and one in
\* the branches tier, written last
C13_Witness ==
  /\ last.op = "setBranches"
  /\ last.a1 = PipelineKey(StoreProject, StoreBranch)
  /\ last.a1 \in Keys(groupsProjectsFile)
  /\ last.a1 \in Keys(branchesFile)
  /\ getGroupsProjects(last.a1).data # last.arg
  /\ getBranches(last.a1).data = last.arg

AgeOps == {"getGroupsProjectsAge", "getBranchesAge", "getPipelineAge"}

\* this step is a call of op
Calls(op) == calls' = calls + 1 /\ last'.op = op

\* from file to file' every entry is kept as it is, but the one of key k when
\* the step is a call of the set of the tier with that key
Kept(file, fileNext, setOp, keyOfCall) ==
  \A k \in Keys(file) :
    \/ Calls("clear")
    \/ Calls(setOp) /\ keyOfCall = k
    \/ k \in Keys(fileNext) /\ fileNext.obj[k] = file.obj[k]

\* C14: a get or an age query changes no tier document; no call of the
\* cache manager starts a call of the GitLab API; an entry stays in its
\* tier, with its value and timestamp, until a set of its key or clear().
C14_PureStore ==
  [][/\ (\E op \in GetOps \cup AgeOps : Calls(op)) => UNCHANGED fileVars
     /\ UNCHANGED h
     /\ Kept(groupsProjectsFile, groupsProjectsFile', "setGroupsProjects",
             last'.a1)
     /\ Kept(branchesFile, branchesFile', "setBranches", last'.a1)
     /\ Kept(pipelinesFile, pipelinesFile', "setPipeline",
             PipelineKey(last'.a1, last'.a2))]_vars

\* an age query on a pipeline entry written 5 s before, still in the tier
C14_Witness ==
  /\ last.op = "getPipelineAge"
  /\ last.ret = Seconds(DefaultPipelinesTTL)
  /\ PipelineKey(last.a1, last.a2) \in Keys(pipelinesFile)
  /\ pipelinesFile.obj[PipelineKey(last.a1, last.a2)].timestamp = 0

\* the tier document a set method writes, and the key of the last call in it
TierFile(op) ==
  CASE op = "setGroupsProjects" -> groupsProjectsFile
    [] op = "setBranches" -> branchesFile
    [] OTHER -> pipelinesFile
LastKey ==
  IF last.op = "setPipeline" THEN PipelineKey(last.a1, last.a2) ELSE last.a1

\* C15: a set called twice in a row with the same key and the same value:
\* after the second call a get of the key returns the value with
\* isStale = FALSE, and the second call changes nothing in the tier
\* document but the timestamp of the entry, which becomes the current time.
C15_SetIdempotent ==
  [][\A op \in SetOps :
       (Calls(op) /\ last'.again) =>
         /\ GetOfLast' = [data |-> last.arg, isStale |-> FALSE, age |-> 0]
         /\ TierFile(op)'.obj =
              [TierFile(op).obj EXCEPT
                 ![LastKey] = [@ EXCEPT !.timestamp = now]]
         /\ \A other \in SetOps \ {op} : TierFile(other)' = TierFile(other)]_vars

\* the second of two equal setBranches, made after the clock has advanced
C15_Witness ==
  /\ last.op = "setBranches"
  /\ last.again
  /\ now > 0
  /\ last.at = now
  /\ branchesFile.obj[last.a1] = [timestamp |-> now, branches |-> last.arg]

\* C16: when refills of one key of the pipelines tier race, the entry stored
\* is the one of the write that completed last: the write of a handler
\* leaves its value in the entry, stamped with the current time, whatever
\* the entry held and whichever request arrived first, and the entry then
\* stays as it is until the next write of the key completes.
C16_LastWriteWins ==
  [][\A p \in ProjectPaths, b \in BranchNames :
       LET k == PipelineKey(p, b)
           written == \E x \in Handlers :
                        /\ Responds(x)
                        /\ sent'.wrote
                        /\ sent'.projectPath = p
                        /\ sent'.branchName = b
       IN /\ written =>
               /\ k \in Keys(pipelinesFile')
               /\ pipelinesFile'.obj[k] =
                    [timestamp |-> now, pipeline |-> sent'.written,
                     includeJobs |-> sent'.includeJobs]
          /\ (~written /\ k \in Keys(pipelinesFile)) =>
               /\ k \in Keys(pipelinesFile')
               /\ pipelinesFile'.obj[k] = pipelinesFile.obj[k]]_vars

\* two requests for one key raced: the one that arrived first wrote last,
\* over the entry written by the other, and its value is the one stored
C16_Witness ==
  /\ requests = 2
  /\ \A x \in Handlers : ~InFlight(x)
  /\ sent.route = "branches"
  /\ sent.raced
  /\ ~sent.overlap
  /\ sent.wrote
  /\ sent.written # Null
  /\ pipelinesFile.obj[PipelineKey(sent.projectPath, sent.branchName)].pipeline
       = sent.written

\* from file to file' the timestamp of no entry decreases, and no entry of
\* file' is stamped later than the time after the step
Stamped(file, fileNext) ==
  /\ \A k \in Keys(file) \cap Keys(fileNext) :
       fileNext.obj[k].timestamp >= file.obj[k].timestamp
  /\ \A k \in Keys(fileNext) : fileNext.obj[k].timestamp <= now'

\* C17: with a clock that does not go back, the timestamp stored for a key
\* never decreases: a set stamps the entry of its key with the current
\* time, which is not before any timestamp stored, and no other step
\* changes a timestamp.
C17_TimestampMonotonic ==
  [][/\ Stamped(groupsProjectsFile, groupsProjectsFile')
     /\ Stamped(branchesFile, branchesFile')
     /\ Stamped(pipelinesFile, pipelinesFile')
     /\ \A op \in SetOps :
          Calls(op) =>
            LET k == IF op = "setPipeline"
                     THEN PipelineKey(last'.a1, last'.a2) ELSE last'.a1
            IN /\ k \in Keys(TierFile(op)')
               /\ TierFile(op)'.obj[k].timestamp = now]_vars

\* the list of a server has been written twice and the clock has advanced:
\* the entry carries the time of the second write
C17_Witness ==
  /\ calls = 2
  /\ last.op = "setGroupsProjects"
  /\ last.again
  /\ ticks = 1
  /\ groupsProjectsFile.obj[last.a1].timestamp = now
  /\ now > 0

\* ------------------------------------------------------------------------
\* A restart of the process: a new MultiLevelCacheManager is constructed on
\* the cache directory left by the previous one, possibly with other TTLs
\* ------------------------------------------------------------------------
\* mutant: the constructor starts from an empty cache directory
Restart_ClearsCache(cacheTTL) ==
  /\ Record(Call("constructor", "", "", FALSE, cacheTTL, Void))
  /\ ttl' = NewTTL(cacheTTL)
  /\ groupsProjectsFile' = NoFile
  /\ branchesFile' = NoFile
  /\ pipelinesFile' = NoFile
  /\ UNCHANGED <<legacyVars, now, ticks, routeVars>>

\* new MultiLevelCacheManager(cacheTTL): the directory exists, the file
\* names and the TTLs are set
Restart(cacheTTL) ==
  /\ Record(Call("constructor", "", "", FALSE, cacheTTL, Void))
  /\ ttl' = NewTTL(cacheTTL)
  /\ UNCHANGED <<legacyVars, now, ticks, fileVars, routeVars>>

\* the cacheTTL a restart can supply: also some of the TTLs only
RestartTTLInputs == CacheTTLInputs \cup {[branches |-> 1, pipelines |-> 0]}

NextRestart ==
  \/ \E s \in ServerNames : CallGetGroupsProjects(s)
  \/ CallGetBranches(StoreProject)
  \/ \E j \in BOOLEAN : CallGetPipeline(StoreProject, StoreBranch, j)
  \/ \E s \in ServerNames, v \in ProjectLists :
       CallSetGroupsProjects(s, v, "ok")
  \/ \E v \in BranchLists : CallSetBranches(StoreProject, v, "ok")
  \/ \E v \in PipelineValues, j \in BOOLEAN :
       CallSetPipeline(StoreProject, StoreBranch, v, j, "ok")
  \/ \E d \in ClockSteps : Tick(d)
  \/ \E c \in RestartTTLInputs : Restart(c)

SpecRestart == Init /\ [][NextRestart]_vars

\* result r of a get, as a manager with TTL t reports it
Under(r, t) == IF r = AbsentResult THEN r ELSE [r EXCEPT !.isStale = r.age > t]

\* C18: the construction of a new manager changes no tier document; the new
\* manager returns for every key the data and the age the old one returned,
\* stale exactly when that age, counted from the write, is above its TTL.
C18_SurvivesRestart ==
  [][Calls("constructor") =>
       /\ UNCHANGED fileVars
       /\ \A s \in ServerNames :
            getGroupsProjects(s)'
              = Under(getGroupsProjects(s), ttl'.groupsProjects)
       /\ getBranches(StoreProject)'
            = Under(getBranches(StoreProject), ttl'.branches)
       /\ \A j \in BOOLEAN :
            getPipeline(StoreProject, StoreBranch, j)'
              = Under(getPipeline(StoreProject, StoreBranch, j),
                      ttl'.pipelines)]_vars

\* a pipeline written 1 ms before the restart is returned by the new
\* manager, stale under its TTL of 0
C18_Witness ==
  /\ last.op = "constructor"
  /\ ttl.pipelines = 0
  /\ \E j \in BOOLEAN :
       LET r == getPipeline(StoreProject, StoreBranch, j)
       IN r.data # Null /\ r.age = 1 /\ r.isStale

\* the outcomes of a write that fails
FailedWrites == IOOutcomes \ {"ok"}

\* C19 (as claimed): a set whose write to the disk fails returns to its
\* caller and leaves the entries stored in the tier as they were: every get
\* of the tier returns the same result after the call as before it.
C19_FailedWriteKeepsEntries ==
  [][\A io \in FailedWrites :
       /\ (\E s \in ServerNames : CallSetGroupsProjects(s, Arr(<<"g/a">>), io))
            => \A s \in ServerNames :
                 getGroupsProjects(s)' = getGroupsProjects(s)
       /\ CallSetBranches(FaultProject, Arr(<<"main">>), io)
            => getBranches(FaultProject)' = getBranches(FaultProject)
       /\ (\E b \in BranchNames, j \in BOOLEAN :
             CallSetPipeline(FaultProject, b,
                             [id |-> 1, jobs |-> "undefined"], j, io))
            => \A b \in BranchNames, j \in BOOLEAN :
                 getPipeline(FaultProject, b, j)'
                   = getPipeline(FaultProject, b, j)]_vars

\* the TTLs, in milliseconds, that the claim gives for a supplied cacheTTL
ClaimedTTL(cacheTTL) ==
  [groupsProjects |->
     IF "groupsProjects" \in DOMAIN cacheTTL
     THEN cacheTTL.groupsProjects * 1000 ELSE 1800 * 1000,
   branches |->
     IF "branches" \in DOMAIN cacheTTL
     THEN cacheTTL.branches * 1000 ELSE 300 * 1000,
   pipelines |->
     IF "pipelines" \in DOMAIN cacheTTL
     THEN cacheTTL.pipelines * 1000 ELSE 5 * 1000]

\* C20: the TTLs are set by the constructor alone: 1800 s, 300 s and 5 s
\* where cacheTTL gives no value, the value given otherwise, 0 included;
\* under a TTL of 0 the entry just written is fresh while the clock has not
\* advanced and stale from then on.
C20_TTLsFixedAtConstruction ==
  /\ [][/\ Calls("constructor") => ttl' = ClaimedTTL(last'.arg)
        /\ ~Calls("constructor") => ttl' = ttl]_vars
  /\ [](/\ ttl \in {ClaimedTTL(c) : c \in RestartTTLInputs}
        /\ (last.op \in SetOps /\ TierTTL(last.op) = 0)
             => GetOfLast.isStale = (now > last.at))

\* constructed with branches: 1 and pipelines: 0, the manager reports the
\* pipeline written 1 ms ago as stale
C20_Witness ==
  /\ ttl = [groupsProjects |-> 1800000, branches |-> 1000, pipelines |-> 0]
  /\ last.op = "setPipeline"
  /\ last.arg # Null
  /\ now = last.at + 1
  /\ GetOfLast.isStale
  /\ GetOfLast.data = last.arg

\* ------------------------------------------------------------------------
\* Pipeline statistics (statistics.ts)
\* ------------------------------------------------------------------------
\* the most samples in a list
MaxSamples == 5
\* durations in seconds
Durations == {5, 10, 20, 50}
SampleLists == UNION {[1..n -> Durations] : n \in 0..MaxSamples}

\* a number that can have the fraction one half: Halves(n) is n / 2
Halves(n) == [halves |-> n]

\* s with x inserted before the first element greater than x
RECURSIVE Insert(_, _)
Insert(s, x) ==
  IF s = <<>> THEN <<x>>
  ELSE IF x < Head(s) THEN <<x>> \o s
  ELSE <<Head(s)>> \o Insert(Tail(s), x)

\* values.sort((a, b) => a - b)
RECURSIVE SortAscending(_)
SortAscending(values) ==
  IF values = <<>> THEN <<>>
  ELSE Insert(SortAscending(Tail(values)), Head(values))

\* mutant: with an even count the upper of the two middle values
calculateMedian_UpperMiddle(values) ==
  IF Len(values) = 0 THEN [value |-> Null, values |-> Arr(values)]
  ELSE LET sorted == SortAscending(values)
           middle == Len(sorted) \div 2
       IN [value |-> Halves(2 * sorted[middle + 1]), values |-> Arr(values)]

\* calculateMedian: value is what it returns, values the array of the caller
\* after the call (the sort is made on a copy); sorted is indexed from 1
calculateMedian(values) ==
  IF Len(values) = 0 THEN [value |-> Null, values |-> Arr(values)]
  ELSE LET sorted == SortAscending(values)
           middle == Len(sorted) \div 2
       IN [value |-> IF Len(sorted) % 2 = 0
                     THEN Halves(sorted[middle] + sorted[middle + 1])
                     ELSE Halves(2 * sorted[middle + 1]),
           values |-> Arr(values)]

\* the most pipelines in the history of a branch, and the largest sampleCount
MaxHistory == 3
MaxSampleCount == 2
\* sampleCount when the caller passes none
DefaultSampleCount == 10

\* Pipeline.duration: number | null
Num(n) == [number |-> n]
HistoryPipeline(status, duration) == [status |-> status, duration |-> duration]
HistoryPipelines ==
  { HistoryPipeline("success", Num(10)), HistoryPipeline("success", Num(20)),
    HistoryPipeline("failed", Num(5)), HistoryPipeline("canceled", Num(50)),
    HistoryPipeline("skipped", Null), HistoryPipeline("success", Num(0)),
    HistoryPipeline("running", Null) }
\* the pipelines of a branch at the upstream, most recently updated first
Histories == UNION {[1..n -> HistoryPipelines] : n \in 0..MaxHistory}
SampleCounts == 1..MaxSampleCount
RecentPipelinesStatuses == {200, 403, 500}
StatisticsInputs ==
  [history : {Arr(x) : x \in Histories}, sampleCount : SampleCounts,
   status : RecentPipelinesStatuses]

FetchFailed == [error |-> "Failed to fetch recent pipelines"]

\* the first n elements of s
Take(s, n) == SubSeq(s, 1, IF Len(s) < n THEN Len(s) ELSE n)

\* the response to GET /projects/:id/pipelines with per_page = count * 2,
\* order_by = updated_at, sort = desc
RecentPipelinesPage(history, count) == Take(history, count * 2)

\* the filter of getRecentPipelines
IsFinishedRun(p) ==
  /\ p.status # "canceled"
  /\ p.status # "skipped"
  /\ p.duration # Null
  /\ p.duration.number > 0

\* GitLabClient.getRecentPipelines against an upstream that answers with
\* status
getRecentPipelines(history, status, count) ==
  IF status = 200
  THEN Arr(Take(SelectSeq(RecentPipelinesPage(history, count), IsFinishedRun),
                count))
  ELSE IF status = 403 THEN Arr(<<>>)
  ELSE FetchFailed

HasDuration(p) == p.duration # Null /\ p.duration.number > 0

\* getPipelineStatistics; lastUpdated is the time of the call
getPipelineStatistics(history, status, sampleCount) ==
  LET recentPipelines == getRecentPipelines(history, status, sampleCount)
  IN IF recentPipelines = FetchFailed THEN FetchFailed
     ELSE LET kept == SelectSeq(recentPipelines.array, HasDuration)
              durations == [i \in 1..Len(kept) |-> kept[i].duration.number]
          IN [estimatedDuration |-> calculateMedian(durations).value,
              sampleSize |-> Len(durations)]

CallGetPipelineStatistics ==
  /\ last.op = "none"
  /\ "history" \in DOMAIN last.arg
  /\ Record(Call("getPipelineStatistics", "", "", FALSE, last.arg,
                 getPipelineStatistics(last.arg.history.array, last.arg.status,
                                       last.arg.sampleCount)))
  /\ UNCHANGED <<legacyVars, cacheVars, routeVars>>

\* a call of calculateMedian on the list prepared in last.arg
CallCalculateMedian ==
  /\ last.op = "none"
  /\ "array" \in DOMAIN last.arg
  /\ Record(Call("calculateMedian", "", "", FALSE, last.arg,
                 calculateMedian(last.arg.array)))
  /\ UNCHANGED <<legacyVars, cacheVars, routeVars>>

\* the state before one call of a statistics function: its argument in last.arg
InitStatistics ==
  /\ now = 0
  /\ ticks = 0
  /\ ttl = NewTTL(EmptyObject)
  /\ groupsProjectsFile = NoFile
  /\ branchesFile = NoFile
  /\ pipelinesFile = NoFile
  /\ calls = 0
  /\ \E input \in {Arr(values) : values \in SampleLists} \cup StatisticsInputs :
       last = [NoCall EXCEPT !.arg = input]
  /\ requests = 0
  /\ h = [x \in Handlers |-> IdleHandler]
  /\ sent = Summary(IdleHandler)
  /\ InitLegacy

NextStatistics ==
  \/ CallCalculateMedian
  \/ CallGetPipelineStatistics

SpecStatistics == InitStatistics /\ [][NextStatistics]_vars

\* the number of elements of values that satisfy below x / at most x
CountBelow(values, x) == Cardinality({i \in 1..Len(values) : values[i] < x})
CountAtMost(values, x) == Cardinality({i \in 1..Len(values) : values[i] =< x})
\* the k-th smallest element of values, counted with repetitions
KthSmallest(values, k) ==
  CHOOSE x \in {values[i] : i \in 1..Len(values)} :
    CountBelow(values, x) < k /\ k =< CountAtMost(values, x)
\* the median of a non-empty list, in halves
MedianOf(values) ==
  LET n == Len(values)
  IN IF n % 2 = 1 THEN Halves(2 * KthSmallest(values, (n + 1) \div 2))
     ELSE Halves(KthSmallest(values, n \div 2)
                 + KthSmallest(values, n \div 2 + 1))

\* C21: calculateMedian returns the median of its list: the middle element
\* of the ascending order for an odd count, the average of the two middle
\* elements for an even count ([5,5,5,5,50] gives 5, [10,20] gives 15),
\* null for the empty list, and it leaves the list of the caller in its
\* order.
C21_MedianOfSamples ==
  last.op = "calculateMedian" =>
    LET values == last.arg.array
    IN /\ last.ret.values = last.arg
       /\ (Len(values) = 0 <=> last.ret.value = Null)
       /\ Len(values) > 0 => last.ret.value = MedianOf(values)
       /\ values = <<5, 5, 5, 5, 50>> => last.ret.value = Halves(2 * 5)
       /\ values = <<10, 20>> => last.ret.value = Halves(2 * 15)

C21_Witness ==
  /\ last.op = "calculateMedian"
  /\ last.arg = Arr(<<20, 5, 50, 10>>)
  /\ last.ret.value = Halves(2 * 15)
  /\ last.ret.values = Arr(<<20, 5, 50, 10>>)

\* the pipelines of the history that the statistics are meant to use
Representative(history) == SelectSeq(history, IsFinishedRun)
SamplesOf(history, n) ==
  LET first == Take(Representative(history), n)
  IN [i \in 1..Len(first) |-> first[i].duration.number]

\* C22: the statistics of a branch use the first N pipelines of the
\* upstream history, most recent first, that are neither canceled nor
\* skipped and have a duration above 0: sampleSize is their number and the
\* estimate is their median, null exactly when sampleSize is 0.
C22_SamplesAreFirstRepresentative ==
  (last.op = "getPipelineStatistics" /\ last.arg.status = 200) =>
    LET samples == SamplesOf(last.arg.history.array, last.arg.sampleCount)
    IN /\ last.ret.sampleSize = Len(samples)
       /\ (last.ret.estimatedDuration = Null <=> last.ret.sampleSize = 0)
       /\ Len(samples) > 0 => last.ret.estimatedDuration = MedianOf(samples)

\* ------------------------------------------------------------------------
\* CacheManager: the statistics document (cache.ts of the API server)
\* ------------------------------------------------------------------------
\* the most direct calls of CacheManager methods
MaxLegacyCalls == 3
\* STATISTICS_CACHE_DURATION = 30 * 60 * 1000
StatisticsCacheDuration == 1800000

\* project ids, written as their decimal digits
ProjectIds == {"1", "2"}
\* one millisecond, twenty minutes, thirty minutes
StatisticsClockSteps == {1, 1200000, StatisticsCacheDuration}

\* `${projectId}:${branchName}`
StatisticsKey(projectId, branchName) == projectId \o ":" \o branchName

\* PipelineStatistics as getPipelineStatistics builds them at time t;
\* lastUpdated is the instant that the ISO string denotes
PipelineStatistics(projectId, branchName, estimatedDuration, sampleSize, t) ==
  [projectId |-> projectId, branchName |-> branchName,
   estimatedDuration |-> estimatedDuration, sampleSize |-> sampleSize,
   lastUpdated |-> t]
StatisticsValues(projectId, branchName) ==
  { PipelineStatistics(projectId, branchName, Null, 0, now),
    PipelineStatistics(projectId, branchName, Halves(2 * 20), 1, now) }

\* CacheManager.getStatistics
getStatistics(projectId, branchName) ==
  IF ~existsSync(statisticsFile) THEN Null
  ELSE IF ParseThrows(statisticsFile) THEN Null
  ELSE LET cached == statisticsFile.obj
           age == now - cached.timestamp
           key == StatisticsKey(projectId, branchName)
       IN IF age > StatisticsCacheDuration THEN Null
          ELSE IF key \in DOMAIN cached.statistics
               THEN cached.statistics[key] ELSE Null

\* CacheManager.setStatistics: the statistics document after the call
setStatistics(projectId, branchName, stats, io) ==
  IF existsSync(statisticsFile) /\ ParseThrows(statisticsFile)
  THEN statisticsFile
  ELSE LET fresh == [timestamp |-> now, statistics |-> EmptyObject]
           cached ==
             IF existsSync(statisticsFile)
                /\ now - statisticsFile.obj.timestamp =< StatisticsCacheDuration
             THEN statisticsFile.obj ELSE fresh
           key == StatisticsKey(projectId, branchName)
       IN writeFileSync(statisticsFile,
                        [timestamp |-> now,
                         statistics |-> Put(cached.statistics, key, stats)],
                        io)

RecordLegacy(c) ==
  /\ calls < MaxLegacyCalls
  /\ calls' = calls + 1
  /\ last' = c

CallGetStatistics(projectId, branchName) ==
  /\ RecordLegacy(Call("getStatistics", projectId, branchName, FALSE, Void,
                       getStatistics(projectId, branchName)))
  /\ UNCHANGED <<cacheVars, routeVars, legacyVars>>

CallSetStatistics(projectId, branchName, stats, io) ==
  /\ statisticsFile' = setStatistics(projectId, branchName, stats, io)
  /\ RecordLegacy(Call("setStatistics", projectId, branchName, FALSE, stats,
                       Void))
  /\ UNCHANGED <<cacheVars, routeVars, dataFile, api, monitor>>

StatisticsClockStep ==
  \E d \in StatisticsClockSteps : Tick(d)

NextStatisticsCache ==
  \/ \E projectId \in ProjectIds, branchName \in BranchNames :
       CallGetStatistics(projectId, branchName)
  \/ \E projectId \in ProjectIds, branchName \in BranchNames, io \in IOOutcomes :
       \E stats \in StatisticsValues(projectId, branchName) :
         CallSetStatistics(projectId, branchName, stats, io)
  \/ StatisticsClockStep

SpecStatisticsCache == InitRoutes /\ [][NextStatisticsCache]_vars

\* C23: getStatistics returns the statistics of a key while they are at
\* most 30 minutes old and null once more than 30 minutes have passed since
\* the statistics of that key were written, whatever was written for other
\* keys in the meantime.
C23_StatisticsExpirePerKey ==
  last.op = "getStatistics" =>
    LET key == StatisticsKey(last.a1, last.a2)
    IN /\ last.ret # Null =>
            last.at - last.ret.lastUpdated =< StatisticsCacheDuration
       /\ ( /\ now = last.at
            /\ statisticsFile.st = "json"
            /\ key \in DOMAIN statisticsFile.obj.statistics
            /\ now - statisticsFile.obj.statistics[key].lastUpdated
                 =< StatisticsCacheDuration )
          => last.ret = statisticsFile.obj.statistics[key]

\* ------------------------------------------------------------------------
\* The API server (api-server.ts): GET /api/pipelines and
\* GET /api/pipelines/stream over CacheManager.  One request is followed
\* from its arrival to the end of its response; the calls made for one
\* project are taken as one step.
\* ------------------------------------------------------------------------
\* CACHE_DURATION = 10 * 1000
CacheDuration == 10000

\* the characters of the strings that are searched
Chars(s) ==
  CASE s = "Alpha" -> <<"A", "l", "p", "h", "a">>
    [] s = "Beta" -> <<"B", "e", "t", "a">>
    [] s = "g/a" -> <<"g", "/", "a">>
    [] s = "h/b" -> <<"h", "/", "b">>
    [] s = "BET" -> <<"B", "E", "T">>
    [] s = "h" -> <<"h">>
UpperLetters == <<"A", "B", "E", "G", "H", "L", "P", "T">>
LowerLetters == <<"a", "b", "e", "g", "h", "l", "p", "t">>
toLowerCase(cs) ==
  [i \in DOMAIN cs |->
     IF \E k \in DOMAIN UpperLetters : UpperLetters[k] = cs[i]
     THEN LowerLetters[CHOOSE k \in DOMAIN UpperLetters : UpperLetters[k] = cs[i]]
     ELSE cs[i]]
includes(cs, pattern) ==
  \E i \in 0..(Len(cs) - Len(pattern)) :
    SubSeq(cs, i + 1, i + Len(pattern)) = pattern

\* config.excludeProjects of the runs examined
ExcludeInputs == {<<>>, <<"BET">>}

\* isProjectExcluded of api-server.ts, for config.excludeProjects = exclude
isProjectExcludedBy(exclude, projectName, projectPath) ==
  IF Len(exclude) = 0 THEN FALSE
  ELSE LET nameLower == toLowerCase(Chars(projectName))
           pathLower == toLowerCase(Chars(projectPath))
       IN \E k \in DOMAIN exclude :
            LET patternLower == toLowerCase(Chars(exclude[k]))
            IN includes(nameLower, patternLower)
               \/ includes(pathLower, patternLower)

\* the projects at the upstream
UpstreamProject(path) ==
  CASE path = "g/a" -> [id |-> "1", name |-> "Alpha", path_with_namespace |-> "g/a"]
    [] path = "h/b" -> [id |-> "2", name |-> "Beta", path_with_namespace |-> "h/b"]
\* ProjectConfig of a configured project, and of a project listed for a group
ConfiguredProject(path) == [name |-> "", path |-> path]
ListedProject(path) ==
  [name |-> UpstreamProject(path).name, path |-> path]

\* what GitLab answers for the calls made for one project
ApiPipelinesReplies == {r \in PipelinesReplies : r.status # 403}
RecentReplies ==
  {[status |-> 200, history |-> Arr(<<HistoryPipeline("success", Num(20))>>)],
   [status |-> 403, history |-> Arr(<<>>)],
   [status |-> 500, history |-> Arr(<<>>)]}
ProjectFetches ==
  [project : ProjectReplies, branches : BranchesReplies,
   pipeline : ApiPipelinesReplies, jobs : JobsReplies, recent : RecentReplies]

\* the documents of pipeline-data.json and their reads
CacheData(data, duration) ==
  [timestamp |-> now, data |-> data, duration |-> duration]

\* mutant: force is not looked at
get_IgnoresForce(force, includeJobs) ==
  LET cacheFile == dataFile[includeJobs]
  IN IF ~existsSync(cacheFile) THEN Null
     ELSE IF ParseThrows(cacheFile) THEN Null
     ELSE IF now - cacheFile.obj.timestamp > CacheDuration THEN Null
     ELSE cacheFile.obj.data

\* CacheManager.get
get(force, includeJobs) ==
  IF force THEN Null
  ELSE LET cacheFile == dataFile[includeJobs]
       IN IF ~existsSync(cacheFile) THEN Null
          ELSE IF ParseThrows(cacheFile) THEN Null
          ELSE IF now - cacheFile.obj.timestamp > CacheDuration THEN Null
          ELSE cacheFile.obj.data

\* mutant: nothing is written
set_KeepsFiles(data, includeJobs, duration, io) == dataFile

\* CacheManager.set: the data files after the call
set(data, includeJobs, duration, io) ==
  [dataFile EXCEPT ![includeJobs] =
     writeFileSync(dataFile[includeJobs], CacheData(data, duration), io)]

\* CacheManager.getAge, on the files given
getAge(files, includeJobs) ==
  LET cacheFile == files[includeJobs]
  IN IF ~existsSync(cacheFile) THEN Null
     ELSE IF ParseThrows(cacheFile) THEN Null
     ELSE Seconds((now - cacheFile.obj.timestamp) \div MsPerSecond)

\* the entries of TreeData
BranchNode(branchName, pipeline, estimatedDuration) ==
  [name |-> branchName, pipeline |-> pipeline,
   estimatedDuration |-> estimatedDuration]
StreamBranchNode(branchName, pipeline) ==
  [name |-> branchName, pipeline |-> pipeline]
BranchError(branchName) == [name |-> branchName, error |-> "message"]
ProjectNode(project, branches) ==
  [name |-> project.name, path |-> project.path_with_namespace,
   branches |-> branches]
ProjectError(projectConfig) ==
  [name |-> IF projectConfig.name # "" THEN projectConfig.name
            ELSE projectConfig.path,
   path |-> projectConfig.path, branches |-> <<>>, error |-> "message"]
GroupError(groupPath) ==
  [name |-> groupPath, path |-> groupPath, branches |-> <<>>,
   error |-> "Failed to fetch group"]
TreeData(serverName, projects) ==
  <<[serverName |-> serverName, projects |-> projects]>>

\* the statistics block of fetchPipelineData for one branch: the estimate,
\* the statistics document afterwards, and whether the block threw
StatisticsBlock(projectId, branchName, recent, io) ==
  LET cachedStats == getStatistics(projectId, branchName)
  IN IF cachedStats # Null
     THEN [estimatedDuration |-> cachedStats.estimatedDuration,
           file |-> statisticsFile, threw |-> FALSE]
     ELSE LET stats == getPipelineStatistics(recent.history.array, recent.status,
                                             DefaultSampleCount)
          IN IF stats = FetchFailed
             THEN [estimatedDuration |-> Null, file |-> statisticsFile,
                   threw |-> TRUE]
             ELSE [estimatedDuration |-> stats.estimatedDuration,
                   file |-> setStatistics(
                              projectId, branchName,
                              PipelineStatistics(projectId, branchName,
                                                 stats.estimatedDuration,
                                                 stats.sampleSize, now),
                              io),
                   threw |-> FALSE]

\* the pipeline of one branch with its jobs, Thrown when a call rejects
BranchPipeline(includeJobs, f) ==
  LET pipeline == getLatestPipeline(f.pipeline)
  IN IF pipeline = Thrown \/ pipeline = Null \/ ~includeJobs THEN pipeline
     ELSE IF getPipelineJobs(f.jobs) = "throw" THEN Thrown
     ELSE [pipeline EXCEPT !.jobs = getPipelineJobs(f.jobs)]
\* one element of branchData in fetchPipelineData: the node, the statistics
\* document afterwards, whether the statistics block was reached and
\* whether it threw
BranchFetch(project, branchName, includeJobs, f, io) ==
  LET pipeline == BranchPipeline(includeJobs, f)
  IN IF pipeline = Thrown
     THEN [node |-> BranchError(branchName), file |-> statisticsFile,
           block |-> FALSE, threw |-> FALSE]
     ELSE LET block == StatisticsBlock(project.id, branchName, f.recent, io)
          IN [node |-> BranchNode(branchName,
                                  IF pipeline = Null THEN Undefined ELSE pipeline,
                                  block.estimatedDuration),
              file |-> block.file, block |-> TRUE, threw |-> block.threw]

\* one element of branchData in the stream route
StreamBranchFetch(branchName, includeJobs, f) ==
  LET pipeline == BranchPipeline(includeJobs, f)
  IN IF pipeline = Thrown THEN BranchError(branchName)
     ELSE StreamBranchNode(branchName,
                           IF pipeline = Null THEN Undefined ELSE pipeline)

\* the events of the stream
Progress(stage) == [event |-> "progress", stage |-> stage]
Complete(data, cached) ==
  [event |-> "complete", data |-> data, cached |-> cached]

ApiRoutes == {"pipelines", "stream"}
\* the writes of this part succeed
ApiIOOutcomes == {"ok"}

\* res.json({ data, cached, cacheAge, ... }) after the files are as given
JsonResponse(data, force, files, includeJobs) ==
  [status |-> 200,
   body |-> [data |-> data,
             cached |-> (~force /\ getAge(files, includeJobs) # Null),
             cacheAge |-> getAge(files, includeJobs),
             includeJobs |-> includeJobs]]

\* the request arrives: cache.get, and on a hit the whole response
ApiAccept(route, force, includeJobs) ==
  /\ api.pc = "idle"
  /\ LET data == get(force, includeJobs)
         r == [api EXCEPT !.route = route, !.force = force,
                          !.includeJobs = includeJobs, !.hit = (data # Null),
                          !.startTime = now]
         configured == [i \in DOMAIN ServerConfig("gitlab").projects |->
                          ConfiguredProject(ServerConfig("gitlab").projects[i])]
     IN api' =
          IF data # Null
          THEN IF route = "pipelines"
               THEN [r EXCEPT !.pc = "done",
                              !.res = JsonResponse(data, force, dataFile,
                                                   includeJobs)]
               ELSE [r EXCEPT !.pc = "done", !.ended = TRUE,
                              !.events = <<Complete(data, TRUE)>>]
          ELSE IF route = "pipelines"
               THEN [r EXCEPT !.pc = "groups", !.queue = configured]
               ELSE [r EXCEPT !.pc = "groups", !.queue = configured,
                              !.events = <<Progress("init"), Progress("groups")>>]
  /\ UNCHANGED <<cacheVars, callVars, routeVars, statisticsFile, dataFile,
                 monitor>>

\* getGroupProjects for the group of the server has answered
ApiGroupProjectsDone(reply) ==
  /\ api.pc = "groups"
  /\ LET groupPath == ServerConfig("gitlab").groups[1]
         groupProjects == getGroupProjects(reply)
         r == [api EXCEPT !.pc = "projects", !.upstream = TRUE,
                          !.events = IF api.route = "stream"
                                     THEN @ \o <<Progress("projects")>> ELSE @]
     IN api' =
          IF groupProjects = Thrown
          THEN [r EXCEPT !.projects = @ \o <<GroupError(groupPath)>>]
          ELSE [r EXCEPT !.queue =
                  @ \o [i \in DOMAIN groupProjects.array |->
                          ListedProject(groupProjects.array[i])]]
  /\ UNCHANGED <<cacheVars, callVars, routeVars, statisticsFile, dataFile,
                 monitor>>

\* the body of the loop over allProjectConfigs for the next project
ApiProjectDone(f, io) ==
  /\ api.pc = "projects"
  /\ api.queue # <<>>
  /\ LET projectConfig == Head(api.queue)
         project == IF f.project.status = 200
                    THEN UpstreamProject(projectConfig.path) ELSE Thrown
         r == [api EXCEPT !.queue = Tail(@), !.upstream = TRUE]
         entry == [config |-> projectConfig, failed |-> FALSE,
                   excluded |-> FALSE, block |-> FALSE, readFailed |-> FALSE,
                   cachedStats |-> Null, recent |-> 0, threw |-> FALSE,
                   wrote |-> FALSE]
         Logged(x, e) == [x EXCEPT !.log = @ \o <<e>>]
     IN IF project = Thrown
        THEN /\ api' = Logged([r EXCEPT !.projects =
                                 @ \o <<ProjectError(projectConfig)>>],
                              [entry EXCEPT !.failed = TRUE])
             /\ UNCHANGED statisticsFile
        ELSE IF isProjectExcludedBy(api.exclude, project.name,
                                    project.path_with_namespace)
        THEN /\ api' = Logged(r, [entry EXCEPT !.excluded = TRUE])
             /\ UNCHANGED statisticsFile
        ELSE LET branches == clientGetBranches(f.branches)
                 e == IF api.route = "stream"
                      THEN <<Progress("fetching")>> ELSE <<>>
             IN IF branches = Thrown
                THEN /\ api' = Logged([r EXCEPT !.events = @ \o e,
                                         !.projects =
                                           @ \o <<ProjectError(projectConfig)>>],
                                      [entry EXCEPT !.failed = TRUE])
                     /\ UNCHANGED statisticsFile
                ELSE IF api.route = "stream"
                THEN /\ api' =
                          Logged([r EXCEPT
                                    !.events = @ \o e,
                                    !.projects = @ \o
                                      <<ProjectNode(project,
                                          <<StreamBranchFetch(branches.array[1],
                                                              api.includeJobs, f)>>)>>],
                                 entry)
                     /\ UNCHANGED statisticsFile
                ELSE LET b == BranchFetch(project, branches.array[1],
                                          api.includeJobs, f, io)
                     IN /\ api' =
                             Logged([r EXCEPT
                                       !.projects = @ \o
                                         <<ProjectNode(project, <<b.node>>)>>],
                                    [entry EXCEPT
                                       !.block = b.block,
                                       !.readFailed =
                                         (b.block /\ ParseThrows(statisticsFile)),
                                       !.cachedStats =
                                         getStatistics(project.id,
                                                       branches.array[1]),
                                       !.recent = f.recent.status,
                                       !.threw = b.threw,
                                       !.wrote = (b.file # statisticsFile)])
                        /\ statisticsFile' = b.file
  /\ UNCHANGED <<cacheVars, callVars, routeVars, dataFile, monitor>>

\* after the loops: cache.set and the response
ApiFinish(io) ==
  /\ api.pc = "projects"
  /\ api.queue = <<>>
  /\ LET allData == Arr(TreeData("gitlab", api.projects))
         duration == now - api.startTime
         files == set(allData, api.includeJobs, duration, io)
         r == [api EXCEPT !.pc = "done", !.stored = allData]
     IN /\ dataFile' = files
        /\ api' =
             IF api.route = "pipelines"
             THEN [r EXCEPT !.res = JsonResponse(allData, api.force, files,
                                                 api.includeJobs)]
             ELSE [r EXCEPT !.ended = TRUE,
                            !.events = @ \o <<Complete(allData, FALSE)>>]
  /\ UNCHANGED <<cacheVars, callVars, routeVars, statisticsFile, monitor>>

ApiClockSteps == {1, CacheDuration}
\* time passes before the request arrives
ApiClockStep ==
  /\ api.pc = "idle"
  /\ \E d \in ApiClockSteps : Tick(d)

\* what the cache directory can hold when the server starts: nothing, or
\* the documents of an earlier run with the same configuration
OldData(exclude) ==
  Arr(TreeData("gitlab",
        <<GroupError("h")>> \o
        IF isProjectExcludedBy(exclude, "Alpha", "g/a") THEN <<>>
        ELSE <<ProjectNode(UpstreamProject("g/a"),
                 <<BranchNode("main", [id |-> 1, jobs |-> "undefined"], Null)>>)>>))
OldStatistics ==
  [timestamp |-> 0,
   statistics |-> Put(EmptyObject, StatisticsKey("1", "main"),
                      PipelineStatistics("1", "main", Halves(2 * 50), 1, 0))]

InitApi ==
  /\ now = 0
  /\ ticks = 0
  /\ ttl = NewTTL(EmptyObject)
  /\ groupsProjectsFile = NoFile
  /\ branchesFile = NoFile
  /\ pipelinesFile = NoFile
  /\ calls = 0
  /\ last = NoCall
  /\ requests = 0
  /\ h = [x \in Handlers |-> IdleHandler]
  /\ sent = Summary(IdleHandler)
  /\ \E exclude \in ExcludeInputs :
       /\ api = [IdleApi EXCEPT !.exclude = exclude]
       /\ dataFile \in
            { [includeJobs \in BOOLEAN |-> NoFile],
              [includeJobs \in BOOLEAN |->
                 JsonFile([timestamp |-> 0, data |-> OldData(exclude),
                           duration |-> 0])] }
  /\ statisticsFile \in {NoFile, TornFile, JsonFile(OldStatistics)}
  /\ monitor = IdleMonitor

NextApi ==
  \/ \E route \in ApiRoutes, force \in BOOLEAN, includeJobs \in BOOLEAN :
       ApiAccept(route, force, includeJobs)
  \/ \E reply \in GroupProjectsReplies("h") : ApiGroupProjectsDone(reply)
  \/ \E f \in ProjectFetches, io \in ApiIOOutcomes : ApiProjectDone(f, io)
  \/ \E io \in ApiIOOutcomes : ApiFinish(io)
  \/ ApiClockStep

SpecApi == InitApi /\ [][NextApi]_vars

\* the node that fetchPipelineData pushed for the i-th project handled
NodesOf(i) ==
  {k \in DOMAIN api.projects :
     api.projects[k].path = api.log[i].config.path}
\* the statistics of the branch could not be read or could not be computed
StatisticsFailed(e) == e.block /\ (e.threw \/ e.readFailed)
\* the estimate of the recent pipelines that GitLab lists with status 200
ListedEstimate == Halves(2 * 20)

\* C24: when reading or computing the statistics of a branch fails,
\* fetchPipelineData still returns the branch with its pipeline and with
\* estimatedDuration = null and writes nothing to the statistics cache for
\* it, and the branches of the other projects have the estimates they have
\* without the failure.
C24_EstimationIsOptional ==
  api.route = "pipelines" =>
    \A i \in DOMAIN api.log :
      LET e == api.log[i]
      IN e.block =>
           \E k \in NodesOf(i) :
             LET branch == api.projects[k].branches[1]
             IN /\ "pipeline" \in DOMAIN branch
                /\ StatisticsFailed(e) =>
                     (branch.estimatedDuration = Null /\ ~e.wrote)
                /\ ~StatisticsFailed(e) =>
                     branch.estimatedDuration =
                       IF e.cachedStats # Null
                       THEN e.cachedStats.estimatedDuration
                       ELSE IF e.recent = 200 THEN ListedEstimate ELSE Null

\* ------------------------------------------------------------------------
\* TokenManager (token-manager.ts)
\* ------------------------------------------------------------------------
\* the most tokens of a server
MaxTokens == 2
\* 1000 * 60 * 60 * 24
MsPerDay == 86400000
\* a token with at most this many days remaining is expiring
ExpiringDays == 7

\* expires_at is a date: the instant of its midnight, UTC
DateOfDay(d) == d * MsPerDay
\* the clock when the tokens are validated: on day 10 at midnight, one
\* millisecond later, at noon
ValidationTimes == {DateOfDay(10), DateOfDay(10) + 1, DateOfDay(10) + 43200000}
ExpiryDays == {8, 9, 10, 11, 17, 18}
\* what GET /personal_access_tokens/self answers for a token
TokenInfos ==
  [active : BOOLEAN, revoked : BOOLEAN,
   expires_at : {Null} \cup {Num(DateOfDay(d)) : d \in ExpiryDays}]
TokenInfoFailed == [error |-> "Failed to fetch token info"]
TokenReplies == TokenInfos \cup {TokenInfoFailed}

\* Math.ceil(a / b) for b > 0
Ceil(a, b) == -((-a) \div b)

Health(status, expiresAt, daysRemaining) ==
  [status |-> status, expiresAt |-> expiresAt, daysRemaining |-> daysRemaining]

\* TokenManager.calculateTokenHealth; 0 stands for -0 as well, neither is
\* below 0
calculateTokenHealth(expiresAt, isValid) ==
  IF ~isValid THEN Health("invalid", Null, Null)
  ELSE IF expiresAt = Null THEN Health("valid", Null, Null)
  ELSE LET msRemaining == expiresAt.number - now
           daysRemaining == Ceil(msRemaining, MsPerDay)
       IN IF daysRemaining < 0
          THEN Health("expired", expiresAt, Num(daysRemaining))
          ELSE IF daysRemaining =< ExpiringDays
          THEN Health("expiring", expiresAt, Num(daysRemaining))
          ELSE Health("valid", expiresAt, Num(daysRemaining))

\* the health that validateServerTokens records for one token
ValidatedHealth(reply) ==
  IF reply = TokenInfoFailed THEN Health("invalid", Null, Null)
  ELSE calculateTokenHealth(reply.expires_at, reply.active /\ ~reply.revoked)

\* this.serverTokens.get(serverName): undefined before the validation, else
\* the tokens of the server in the order of the configuration
HealthStatuses == {"valid", "expiring", "expired", "invalid"}
TokenValues == <<"token-1", "token-2", "token-3">>
ServerTokenLists ==
  UNION {[1..n -> HealthStatuses] : n \in 0..MaxTokens}
TokenWithHealth(statuses) ==
  [i \in DOMAIN statuses |->
     [token |-> [value |-> TokenValues[i]], health |-> [status |-> statuses[i]]]]
ServerTokens ==
  {Undefined} \cup {Arr(TokenWithHealth(s)) : s \in ServerTokenLists}

\* TokenManager.getValidToken on tokens = this.serverTokens.get(serverName)
getValidToken(tokens) ==
  IF tokens = Undefined \/ Len(tokens.array) = 0 THEN Null
  ELSE LET usable == {i \in DOMAIN tokens.array :
                        tokens.array[i].health.status \in {"valid", "expiring"}}
       IN IF usable # {}
          THEN [string |-> tokens.array[CHOOSE i \in usable :
                                          \A k \in usable : i =< k].token.value]
          ELSE [string |-> tokens.array[1].token.value]

CallValidateToken ==
  /\ last.op = "none"
  /\ last.arg \in TokenReplies
  /\ Record(Call("validateServerTokens", "", "", FALSE, last.arg,
                 ValidatedHealth(last.arg)))
  /\ UNCHANGED <<cacheVars, routeVars, legacyVars>>

CallGetValidToken ==
  /\ last.op = "none"
  /\ last.arg \in ServerTokens
  /\ Record(Call("getValidToken", "", "", FALSE, last.arg,
                 getValidToken(last.arg)))
  /\ UNCHANGED <<cacheVars, routeVars, legacyVars>>

\* before one call of the token manager: its argument in last.arg
InitTokens ==
  /\ now \in ValidationTimes
  /\ ticks = 0
  /\ ttl = NewTTL(EmptyObject)
  /\ groupsProjectsFile = NoFile
  /\ branchesFile = NoFile
  /\ pipelinesFile = NoFile
  /\ calls = 0
  /\ \E input \in TokenReplies \cup ServerTokens :
       last = [NoCall EXCEPT !.arg = input]
  /\ requests = 0
  /\ h = [x \in Handlers |-> IdleHandler]
  /\ sent = Summary(IdleHandler)
  /\ InitLegacy

NextTokens ==
  \/ CallValidateToken
  \/ CallGetValidToken

SpecTokens == InitTokens /\ [][NextTokens]_vars

\* the values of the tokens of the list that have a status of the set
ValuesWith(tokens, statuses) ==
  {[string |-> tokens.array[i].token.value] :
     i \in {k \in DOMAIN tokens.array :
              tokens.array[k].health.status \in statuses}}

\* C25: getValidToken returns a valid token whenever the server has one, an
\* expiring token only when it has no valid one, the first configured token
\* when none is valid or expiring, and null only when the server has no
\* validated tokens.
C25_PrefersHealthyToken ==
  last.op = "getValidToken" =>
    IF last.arg = Undefined \/ Len(last.arg.array) = 0
    THEN last.ret = Null
    ELSE LET tokens == last.arg
         IN /\ last.ret # Null
            /\ ValuesWith(tokens, {"valid"}) # {} =>
                 last.ret \in ValuesWith(tokens, {"valid"})
            /\ (ValuesWith(tokens, {"valid"}) = {}
                /\ ValuesWith(tokens, {"expiring"}) # {}) =>
                 last.ret \in ValuesWith(tokens, {"expiring"})
            /\ ValuesWith(tokens, {"valid", "expiring"}) = {} =>
                 last.ret = [string |-> tokens.array[1].token.value]

\* C26: a token that is inactive or revoked, or whose validation failed, is
\* invalid; otherwise a token whose expiry date is in the past is expired;
\* otherwise a token with at most 7 days remaining is expiring; otherwise,
\* with more than 7 days remaining or without an expiry date, it is valid.
C26_HealthClassification ==
  last.op = "validateServerTokens" =>
    last.ret.status =
      IF last.arg = TokenInfoFailed THEN "invalid"
      ELSE IF ~last.arg.active \/ last.arg.revoked THEN "invalid"
      ELSE IF last.arg.expires_at = Null THEN "valid"
      ELSE IF last.arg.expires_at.number < last.at THEN "expired"
      ELSE IF last.arg.expires_at.number - last.at =< ExpiringDays * MsPerDay
      THEN "expiring"
      ELSE "valid"

\* the data of the response of a request that is done
ResponseData(r) ==
  IF r.route = "pipelines" THEN r.res.body.data
  ELSE r.events[Len(r.events)].data

\* C27: a request with force = true is never answered from the cache,
\* whatever the age of the document: GitLab is asked, and the result is
\* the data of the response and replaces the document of the includeJobs
\* variant of the request, the document of the other variant staying as it
\* is.
C27_ForceBypassesCache ==
  [][(api.pc # "done" /\ api'.pc = "done" /\ api'.force) =>
       LET j == api'.includeJobs
       IN /\ ~api'.hit
          /\ api'.upstream
          /\ api'.stored # Null
          /\ ResponseData(api') = api'.stored
          /\ dataFile'[j].st = "json"
          /\ dataFile'[j].obj.data = api'.stored
          /\ dataFile'[j].obj.timestamp = now
          /\ dataFile'[~j] = dataFile[~j]]_vars

C27_Witness ==
  /\ api.pc = "done"
  /\ api.force
  /\ now =< CacheDuration
  /\ dataFile[~api.includeJobs].st = "json"
  /\ dataFile[~api.includeJobs].obj.data = OldData(api.exclude)
  /\ api.stored # OldData(api.exclude)
  /\ ResponseData(api) = api.stored

Terminal(e) == e.event \in {"complete", "error"}
\* the events written so far are progress events, followed by one terminal
\* event exactly when the stream is ended
WellOrdered(r) ==
  /\ \A i \in 1..(Len(r.events) - 1) : r.events[i].event = "progress"
  /\ IF r.ended
     THEN Len(r.events) > 0 /\ Terminal(r.events[Len(r.events)])
     ELSE \A i \in DOMAIN r.events : r.events[i].event = "progress"

\* C28: a request to /api/pipelines/stream produces progress events and
\* then exactly one terminal event, after which the stream is ended and
\* nothing more is sent; on a cache hit the events are a single complete
\* with cached = true and GitLab is not asked; on a miss the data of the
\* complete event, sent with cached = false, is in the cache when the event
\* is sent.
C28_StreamEventOrder ==
  /\ [](api.route = "stream" =>
          /\ WellOrdered(api)
          /\ (api.pc = "done" <=> api.ended)
          /\ api.hit =>
               /\ Len(api.events) = 1
               /\ api.events[1].event = "complete"
               /\ api.events[1].cached
               /\ ~api.upstream
          /\ (api.ended /\ ~api.hit) =>
               LET e == api.events[Len(api.events)]
               IN /\ e.event = "complete"
                  /\ ~e.cached
                  /\ dataFile[api.includeJobs].st = "json"
                  /\ dataFile[api.includeJobs].obj.data = e.data)
  /\ [][api.ended => api' = api]_vars

C28_Witness ==
  /\ api.route = "stream"
  /\ api.ended
  /\ ~api.hit
  /\ Len(api.events) = 6
  /\ api.events[6] = Complete(api.stored, FALSE)
  /\ dataFile[api.includeJobs].obj.data = api.stored

\* the project entries of a TreeData document
EntriesOf(data) == data.array[1].projects
ExcludedEntry(entry) == isProjectExcludedBy(api.exclude, entry.name, entry.path)

\* C29: a project whose name or path contains an excludeProjects pattern,
\* compared as a substring without regard to case, appears neither in the
\* data that the fetch routes return nor in what they write to the cache,
\* also when fetching the project fails.
C29_ExcludedNeverAppear ==
  /\ \A k \in DOMAIN api.projects : ~ExcludedEntry(api.projects[k])
  /\ api.stored # Null =>
       \A k \in DOMAIN EntriesOf(api.stored) :
         ~ExcludedEntry(EntriesOf(api.stored)[k])
  /\ \A j \in BOOLEAN :
       dataFile[j].st = "json" =>
         \A k \in DOMAIN EntriesOf(dataFile[j].obj.data) :
           ~ExcludedEntry(EntriesOf(dataFile[j].obj.data)[k])

\* ------------------------------------------------------------------------
\* GET /servers/:serverName alone, with a clock that passes the TTL of the
\* groups and projects
\* ------------------------------------------------------------------------
ServersClockStep == DefaultGroupsProjectsTTL * MsPerSecond + 1

NextServers ==
  \/ \E x \in Handlers, s \in RequestServerNames, forceRefresh \in BOOLEAN :
       ServerRoute(x, s, forceRefresh)
  \/ \E x \in Handlers, reply \in AllGroupProjectsReplies :
       ServerGroupProjectsDone(x, reply)
  \/ \E x \in Handlers, reply \in ProjectReplies :
       ServerProjectDone(x, reply)
  \/ Tick(ServersClockStep)

SpecServers == InitRoutes /\ [][NextServers]_vars

\* C30: a request to /servers/:serverName without force that finds a stale
\* entry is answered from the cache and triggers a refresh of the entry:
\* when the response is sent the entry has been written again or a fetch
\* for the server is under way.
C30_StaleEntryRefreshed ==
  [][(sent' # sent /\ sent'.route = "servers" /\ sent'.read = "Stale"
      /\ ~sent'.forceRefresh) =>
       \/ sent'.wrote
       \/ \E x \in Handlers :
            /\ h'[x].route = "servers"
            /\ h'[x].serverName = sent'.serverName
            /\ Awaiting(h'[x])]_vars

\* ------------------------------------------------------------------------
\* Concurrent refills of one pipeline key.  GitLab runs a new pipeline for
\* the branch at every advance of the clock and pipeline ids grow, so the
\* pipeline GET /projects/:id/pipelines lists first at the time of the
\* response has the id below.
\* ------------------------------------------------------------------------
UpstreamPipeline == [id |-> ticks + 1, jobs |-> "undefined"]
SnapshotReplies ==
  {[status |-> 200, body |-> UpstreamPipeline], [status |-> 500, body |-> Null]}

NextSnapshots ==
  \/ \E x \in Handlers, p \in ProjectPaths, b \in BranchNames, j \in BOOLEAN :
       BranchRoute(x, p, b, j)
  \/ \E x \in Handlers, reply \in AllGroupProjectsReplies :
       BranchGroupProjectsDone(x, reply)
  \/ \E x \in Handlers, reply \in SnapshotReplies :
       BranchLatestPipelineDone(x, reply)
  \/ \E x \in Handlers, reply \in JobsReplies :
       BranchPipelineJobsDone(x, reply)
  \/ Tick(1)

SpecSnapshots == InitRoutes /\ [][NextSnapshots]_vars

\* the pipeline id stored for a key of pipelines.json, 0 without a pipeline
StoredVersion(file, key) ==
  IF file.st = "json" /\ key \in DOMAIN file.obj
     /\ file.obj[key].pipeline # Null
  THEN file.obj[key].pipeline.id ELSE 0

\* C31: across concurrent refills of one pipeline key the stored value never
\* changes from a newer upstream snapshot to an older one: the pipeline id
\* stored for the key does not decrease.
C31_NeverRegresses ==
  [][\A p \in ProjectPaths, b \in BranchNames :
       StoredVersion(pipelinesFile', PipelineKey(p, b))
         >= StoredVersion(pipelinesFile, PipelineKey(p, b))]_vars

\* C32: a request for the branches of a project of a configured server
\* succeeds whenever no GitLab call of the request failed, whatever the
\* groups/projects tier holds for the server.
C32_TiersRefillIndependently ==
  (sent.route = "projects" /\ sent.serverName \in ConfiguredNames
   /\ ~sent.failed) => sent.res.status = 200

\* ------------------------------------------------------------------------
\* GitLabMonitor (the terminal program): start, scheduleNextRefresh, refresh
\* and stop.  A step runs from a call or from the completion of an awaited
\* promise to the next await.  The calls of the UI are taken to return.
\* ------------------------------------------------------------------------
MaxFires == 2
MaxManual == 1

\* clearTimeout(this.refreshTimer) when it is set, then setTimeout(...)
scheduleNextRefresh(m) ==
  LET cleared == IF m.refreshTimer = "live" THEN m.timers - 1 ELSE m.timers
  IN [m EXCEPT !.refreshTimer = "live", !.timers = cleared + 1]

\* mutant: refresh without the isRefreshing guard
refresh_NoGuard(m, caller) ==
  [m EXCEPT !.invoked = @ + 1, !.isRefreshing = TRUE,
            !.body[caller] = "getGroupProjects", !.upstream = @ + 1,
            !.event = "entered"]

\* refresh() up to its first await, client.getGroupProjects(groupConfig)
refresh(m, caller) ==
  IF m.isRefreshing
  THEN [m EXCEPT !.invoked = @ + 1, !.event = "skipped"]
  ELSE [m EXCEPT !.invoked = @ + 1, !.isRefreshing = TRUE,
                 !.body[caller] = "getGroupProjects", !.upstream = @ + 1,
                 !.event = "entered"]

\* what follows await this.refresh() in the caller
Resume(m, caller) ==
  CASE caller = "start" -> scheduleNextRefresh([m EXCEPT !.start = "done"])
    [] caller = "timer" -> scheduleNextRefresh([m EXCEPT !.callback = "idle"])
    [] OTHER -> m

\* the caller calls refresh() and awaits it
Invoke(m, caller) ==
  LET r == refresh(m, caller)
  IN IF r.event = "skipped" THEN Resume(r, caller) ELSE r

\* mutant: the callback arms the next timer before it refreshes
TimerCallback_ArmsFirst(m) ==
  Invoke(scheduleNextRefresh([m EXCEPT !.callback = "refresh"]), "timer")

\* the callback of setTimeout: await this.refresh(); scheduleNextRefresh()
TimerCallback(m) == Invoke([m EXCEPT !.callback = "refresh"], "timer")

\* stop(): clearTimeout(this.refreshTimer) when it is set
stop(m) ==
  [m EXCEPT !.timers = IF m.refreshTimer = "live" THEN @ - 1 ELSE @,
            !.refreshTimer = IF @ = "live" THEN "dead" ELSE @,
            !.stopped = TRUE, !.event = "stopped"]

MonitorUnchanged ==
  UNCHANGED <<cacheVars, callVars, routeVars, statisticsFile, dataFile, api>>

\* monitor.start(), called once the monitor is constructed
MonitorStart ==
  /\ monitor.start = "idle"
  /\ monitor' = Invoke([monitor EXCEPT !.start = "refresh"], "start")
  /\ MonitorUnchanged

\* refresh() called by another caller of the public method
MonitorRefresh ==
  /\ monitor.start # "idle"
  /\ monitor.manual < MaxManual
  /\ monitor' = Invoke([monitor EXCEPT !.manual = @ + 1], "manual")
  /\ MonitorUnchanged

\* the pending timeout fires
MonitorTimerFire ==
  /\ monitor.timers > 0
  /\ monitor.fires < MaxFires
  /\ monitor' = TimerCallback([monitor EXCEPT !.timers = @ - 1,
                                              !.refreshTimer = "dead",
                                              !.fires = @ + 1])
  /\ MonitorUnchanged

\* await client.getGroupProjects(groupConfig) completes; a failure is caught
\* and becomes an error entry; the project fetches are started
MonitorGroupProjectsDone(caller, ok) ==
  /\ monitor.body[caller] = "getGroupProjects"
  /\ monitor' = [monitor EXCEPT !.body[caller] = "getProjectPipelineData",
                                !.upstream = @ + 1, !.failed = @ \/ ~ok,
                                !.event = "awaited"]
  /\ MonitorUnchanged

\* await Promise.all(projectPromises) completes; ui.render, or the catch
\* with ui.showError when something threw; finally; the caller goes on
MonitorProjectsDone(caller, threw) ==
  /\ monitor.body[caller] = "getProjectPipelineData"
  /\ monitor' = Resume([monitor EXCEPT !.body[caller] = "none",
                                       !.isRefreshing = FALSE,
                                       !.threw = @ \/ threw,
                                       !.event = "finished"], caller)
  /\ MonitorUnchanged

\* monitor.stop()
MonitorStop ==
  /\ monitor.start # "idle"
  /\ ~monitor.stopped
  /\ monitor' = stop(monitor)
  /\ MonitorUnchanged

NextMonitor ==
  \/ MonitorStart
  \/ MonitorRefresh
  \/ MonitorTimerFire
  \/ \E caller \in Callers, ok \in BOOLEAN :
       MonitorGroupProjectsDone(caller, ok)
  \/ \E caller \in Callers, threw \in BOOLEAN :
       MonitorProjectsDone(caller, threw)
  \/ MonitorStop

SpecMonitor == InitRoutes /\ [][NextMonitor]_vars

\* the event loop runs the callback of a timeout that is due
SpecMonitorLive == SpecMonitor /\ WF_vars(MonitorTimerFire)

Running == {c \in Callers : monitor.body[c] # "none"}

\* C33: at most one refresh body executes at any time; isRefreshing is true
\* exactly while a body is in flight, whether it ends well or throws; a
\* refresh() called while a body is in flight returns without a GitLab call
\* and without touching the body in flight, and a refresh() called when none
\* is in flight runs.
C33_RefreshNonReentrant ==
  /\ [](Cardinality(Running) <= 1 /\ monitor.isRefreshing = (Running # {}))
  /\ [][monitor'.invoked = monitor.invoked + 1 =>
          IF monitor.isRefreshing
          THEN /\ monitor'.upstream = monitor.upstream
               /\ monitor'.body = monitor.body
               /\ monitor'.isRefreshing
               /\ monitor'.event = "skipped"
          ELSE /\ monitor'.event = "entered"
               /\ monitor'.upstream = monitor.upstream + 1]_vars

\* a body threw and finished, a later refresh was entered, and a call made
\* while it is in flight was skipped
C33_Witness ==
  monitor.threw /\ monitor.event = "skipped" /\ monitor.isRefreshing

\* C34: at most one timer is pending; no timer is pending while a
\* timer-triggered refresh is in flight, and at most one is in flight; until
\* stop() a timer is armed when a timer-triggered refresh completes, and a
\* pending timer fires.
C34_TimerChain ==
  /\ [](/\ monitor.timers <= 1
        /\ (monitor.timers = 1) = (monitor.refreshTimer = "live")
        /\ monitor.callback = "refresh" =>
             monitor.timers = 0 /\ monitor.body["timer"] # "none")
  /\ [][(monitor'.fires > monitor.fires
         \/ (monitor.callback = "refresh" /\ monitor'.callback = "idle")) =>
          \/ monitor'.callback = "refresh"
          \/ monitor'.timers = 1]_vars
  /\ \A n \in 0..(MaxFires - 1) :
       (monitor.timers = 1 /\ monitor.fires = n /\ ~monitor.stopped)
         ~> (monitor.fires > n \/ monitor.stopped)

\* the second timer-triggered refresh has completed and the third timer is
\* armed
C34_Witness ==
  /\ monitor.fires = MaxFires
  /\ monitor.event = "finished"
  /\ monitor.callback = "idle"
  /\ monitor.timers = 1
  /\ ~monitor.stopped

\* C35: once stop() has been called no timer is pending and no timer fires,
\* also when stop() was called while a refresh was in flight.
C35_StopIsFinal ==
  [][monitor.stopped => (monitor'.timers = 0 /\ monitor'.fires = monitor.fires)]_vars

\* ------------------------------------------------------------------------
\* GitLabClient.getGroupProjects: the pages of GET /groups/:path/projects.
\* The group has total pages of PerPage projects each (the projects are
\* numbered in the order of the listing); every response carries the header
\* x-total-pages with that number, or none does; failAt is the page whose
\* request fails, 0 when none does.
\* ------------------------------------------------------------------------
MaxPages == 3
PerPage == 2

GroupListings ==
  {[total |-> total, header |-> header, failAt |-> failAt,
    includeSubgroups |-> includeSubgroups] :
     total \in 1..MaxPages, header \in BOOLEAN, failAt \in 0..MaxPages,
     includeSubgroups \in BOOLEAN}

\* the response to the request of a page: past the last page GitLab answers
\* with an empty list
PageData(listing, page) ==
  IF page > listing.total THEN <<>>
  ELSE [i \in 1..PerPage |-> (page - 1) * PerPage + i]
PageResponse(listing, page) ==
  IF page = listing.failAt
  THEN [status |-> 500, data |-> <<>>, headers |-> EmptyObject]
  ELSE [status |-> 200, data |-> PageData(listing, page),
        headers |-> IF listing.header
                    THEN [xTotalPages |-> ToString(listing.total)]
                    ELSE EmptyObject]

\* parseInt(s, 10) of a decimal numeral
parseInt(s) == CHOOSE n \in 0..(MaxPages + 1) : ToString(n) = s

\* mutant: the last page is asked for once more
hasMorePages_Inclusive(headers, page) ==
  "xTotalPages" \in DOMAIN headers /\ page <= parseInt(headers.xTotalPages)

\* totalPages && page < parseInt(totalPages, 10)
hasMorePages(headers, page) ==
  "xTotalPages" \in DOMAIN headers /\ page < parseInt(headers.xTotalPages)

\* the request of a page: this.client.get(endpoint, {params: {...params, page}})
PageRequest(listing, page) ==
  [endpoint |-> "/groups/h/projects", page |-> page,
   includeSubgroups |-> listing.includeSubgroups]

\* getGroupProjects(config) up to the first await
GroupProjectsCall ==
  /\ last.op = "none"
  /\ last.arg \in GroupListings
  /\ last' = [last EXCEPT
                !.op = "getGroupProjects",
                !.ret = [pc |-> "await", page |-> 1, allProjects |-> <<>>,
                         requests |-> <<PageRequest(last.arg, 1)>>,
                         result |-> Void]]
  /\ UNCHANGED <<legacyVars, cacheVars, calls, routeVars>>

\* await this.client.get(...) completes: the page is appended and the next
\* one requested, or the projects are returned; a failure rejects the call
GroupPageDone ==
  /\ last.op = "getGroupProjects"
  /\ last.ret.pc = "await"
  /\ Len(last.ret.requests) <= MaxPages + 1
  /\ LET s == last.ret
         response == PageResponse(last.arg, s.page)
         allProjects == s.allProjects \o response.data
     IN last' =
          [last EXCEPT !.ret =
             IF response.status # 200
             THEN [s EXCEPT !.pc = "threw", !.result = Thrown]
             ELSE IF hasMorePages(response.headers, s.page)
             THEN [s EXCEPT !.page = @ + 1, !.allProjects = allProjects,
                            !.requests =
                               @ \o <<PageRequest(last.arg, s.page + 1)>>]
             ELSE [s EXCEPT !.pc = "returned", !.page = @ + 1,
                            !.allProjects = allProjects,
                            !.result = Arr(allProjects)]]
  /\ UNCHANGED <<legacyVars, cacheVars, calls, routeVars>>

InitPages ==
  /\ now = 0
  /\ ticks = 0
  /\ ttl = NewTTL(EmptyObject)
  /\ groupsProjectsFile = NoFile
  /\ branchesFile = NoFile
  /\ pipelinesFile = NoFile
  /\ calls = 0
  /\ \E listing \in GroupListings : last = [NoCall EXCEPT !.arg = listing]
  /\ requests = 0
  /\ h = [x \in Handlers |-> IdleHandler]
  /\ sent = Summary(IdleHandler)
  /\ InitLegacy

NextPages == GroupProjectsCall \/ GroupPageDone

SpecPages == InitPages /\ [][NextPages]_vars

\* the projects of the pages 1 to n in the order of the listing
RECURSIVE FirstPages(_, _)
FirstPages(listing, n) ==
  IF n = 0 THEN <<>>
  ELSE FirstPages(listing, n - 1) \o PageData(listing, n)

PagesAsked == [i \in DOMAIN last.ret.requests |-> last.ret.requests[i].page]
Upto(n) == [i \in 1..n |-> i]

\* C36: with the header x-total-pages = T on every response the call asks
\* for the pages 1, ..., T in that order and for nothing else, and returns
\* the pages concatenated in that order; without the header it asks for
\* page 1 only and returns it; when a request fails the call fails and
\* returns nothing.  The pages asked for so far are always 1, 2, ..., k.
C36_AllPagesInOrder ==
  last.op = "getGroupProjects" =>
    LET listing == last.arg
        s == last.ret
        needed == IF listing.header THEN listing.total ELSE 1
    IN /\ PagesAsked = Upto(Len(s.requests))
       /\ Len(s.requests) <= needed
       /\ s.pc = "returned" =>
            /\ Len(s.requests) = needed
            /\ s.result = Arr(FirstPages(listing, needed))
       /\ s.pc = "threw" =>
            /\ listing.failAt \in 1..needed
            /\ Len(s.requests) = listing.failAt
            /\ s.result = Thrown
       /\ s.pc = "await" => s.result = Void
       /\ (s.pc # "await" /\ listing.failAt \in 1..needed) => s.pc = "threw"

\* three pages were fetched and returned
C36_Witness ==
  /\ last.op = "getGroupProjects"
  /\ last.ret.pc = "returned"
  /\ last.arg.total = MaxPages
  /\ Len(last.ret.requests) = MaxPages
  /\ Len(last.ret.result.array) = MaxPages * PerPage

\* C37: the cached field of a response of /api/pipelines is true exactly
\* when the data of the response was read from the cache, and false when the
\* request fetched it from GitLab, as the cached field of the 'complete'
\* event of /api/pipelines/stream is.
C37_CachedFlagTellsTruth ==
  api.pc = "done" =>
    IF api.route = "pipelines"
    THEN api.res.status = 200 => api.res.body.cached = api.hit
    ELSE api.events[Len(api.events)].event = "complete" =>
           api.events[Len(api.events)].cached = api.hit

\* ------------------------------------------------------------------------
\* The path of the branch route.  A string is the sequence of its
\* characters.  Project paths are namespace/project; branch names are git
\* ref names: not empty, no '/' at either end, no '//'.
\* ------------------------------------------------------------------------
MaxNameLen == 3
Letters == {"a", "b"}

RECURSIVE StringsOf(_)
StringsOf(n) ==
  IF n = 0 THEN {<<>>}
  ELSE {Append(s, c) : s \in StringsOf(n - 1), c \in Letters \cup {"/"}}

RefNames ==
  {s \in UNION {StringsOf(n) : n \in 1..MaxNameLen} :
     /\ s[1] # "/"
     /\ s[Len(s)] # "/"
     /\ \A i \in 1..(Len(s) - 1) : ~(s[i] = "/" /\ s[i + 1] = "/")}
RequestedPaths == {s \in RefNames : \E i \in DOMAIN s : s[i] = "/"}
BranchRequests ==
  {[projectPath |-> p, branchName |-> b] : p \in RequestedPaths, b \in RefNames}

\* `/branches/${projectPath}/${branchName}`
BranchesPrefix == <<"/", "b", "r", "a", "n", "c", "h", "e", "s", "/">>
BranchUrl(projectPath, branchName) ==
  BranchesPrefix \o projectPath \o <<"/">> \o branchName

\* /^\/branches\/(.+)$/ : req.params[0], Undefined when the path does not match
MatchBranches(url) ==
  LET n == Len(BranchesPrefix)
  IN IF Len(url) > n /\ SubSeq(url, 1, n) = BranchesPrefix
     THEN SubSeq(url, n + 1, Len(url)) ELSE Undefined

\* s.split('/'): the pieces between the separators
RECURSIVE split(_)
split(s) ==
  IF \A i \in DOMAIN s : s[i] # "/" THEN <<s>>
  ELSE LET i == CHOOSE k \in DOMAIN s :
                  s[k] = "/" /\ \A j \in 1..(k - 1) : s[j] # "/"
       IN <<SubSeq(s, 1, i - 1)>> \o split(SubSeq(s, i + 1, Len(s)))

\* parts.join('/')
RECURSIVE join(_)
join(parts) ==
  IF parts = <<>> THEN <<>>
  ELSE IF Len(parts) = 1 THEN parts[1]
  ELSE parts[1] \o <<"/">> \o join(Tail(parts))

\* the branch route up to the cache read: fullPath.split('/'), pop, join,
\* and the key of cache.getPipeline
ParseBranchPath(url) ==
  LET fullPath == MatchBranches(url)
      pathParts == split(fullPath)
      branchName == pathParts[Len(pathParts)]
      projectPath == join(SubSeq(pathParts, 1, Len(pathParts) - 1))
  IN [projectPath |-> projectPath, branchName |-> branchName,
      key |-> projectPath \o <<":">> \o branchName]

\* GET of the URL of the requested branch
BranchUrlRequest ==
  /\ last.op = "none"
  /\ last.arg \in BranchRequests
  /\ last' = [last EXCEPT
                !.op = "branches",
                !.ret = ParseBranchPath(BranchUrl(last.arg.projectPath,
                                                  last.arg.branchName))]
  /\ UNCHANGED <<legacyVars, cacheVars, calls, routeVars>>

InitBranchUrl ==
  /\ now = 0
  /\ ticks = 0
  /\ ttl = NewTTL(EmptyObject)
  /\ groupsProjectsFile = NoFile
  /\ branchesFile = NoFile
  /\ pipelinesFile = NoFile
  /\ calls = 0
  /\ \E request \in BranchRequests : last = [NoCall EXCEPT !.arg = request]
  /\ requests = 0
  /\ h = [x \in Handlers |-> IdleHandler]
  /\ sent = Summary(IdleHandler)
  /\ InitLegacy

NextBranchUrl == BranchUrlRequest

SpecBranchUrl == InitBranchUrl /\ [][NextBranchUrl]_vars

\* C38: the URL /branches/{projectPath}/{branchName} is parsed back into the
\* same project path and branch name, so the key of the pipeline cache is the
\* one of the requested branch, also when the branch name contains '/'.
C38_RouteRoundTrip ==
  last.op = "branches" =>
    /\ last.ret.projectPath = last.arg.projectPath
    /\ last.ret.branchName = last.arg.branchName
    /\ last.ret.key = last.arg.projectPath \o <<":">> \o last.arg.branchName

\* ------------------------------------------------------------------------
\* clear() with the outcome of the system calls: failAt is the position, in
\* [groupsProjectsFile, branchesFile, pipelinesFile], of the file whose
\* fs.unlinkSync throws (EACCES, EPERM), 0 when none does.  The exception
\* leaves the forEach and is caught and logged.
\* ------------------------------------------------------------------------
ClearOutcomes == 0..3
ClearFiles == <<groupsProjectsFile, branchesFile, pipelinesFile>>

\* the file at position i after clear()
clear(i, failAt) ==
  IF \E k \in 1..i : k = failAt /\ existsSync(ClearFiles[k])
  THEN ClearFiles[i]
  ELSE unlinkSync(ClearFiles[i])

CallClearOutcome(failAt) ==
  /\ Record(Call("clear", "", "", FALSE, Num(failAt), Void))
  /\ groupsProjectsFile' = clear(1, failAt)
  /\ branchesFile' = clear(2, failAt)
  /\ pipelinesFile' = clear(3, failAt)
  /\ UNCHANGED <<legacyVars, now, ticks, ttl, routeVars>>

NextClear ==
  \/ \E s \in ServerNames, v \in ProjectLists :
       CallSetGroupsProjects(s, v, "ok")
  \/ \E p \in ProjectPaths, v \in BranchLists : CallSetBranches(p, v, "ok")
  \/ \E p \in ProjectPaths, b \in BranchNames, v \in PipelineValues,
        j \in BOOLEAN : CallSetPipeline(p, b, v, j, "ok")
  \/ \E failAt \in ClearOutcomes : CallClearOutcome(failAt)
  \/ \E d \in ClockSteps : Tick(d)

SpecClear == InitRoutes /\ [][NextClear]_vars

\* C39: from a clear() to the next set every get of the three tiers returns
\* data = null and isStale = false, and clear() returns without an
\* exception.
C39_ClearEmptiesEveryTier ==
  last.op = "clear" =>
    /\ last.ret = Void
    /\ \A s \in ServerNames : getGroupsProjects(s) = AbsentResult
    /\ \A p \in ProjectPaths : getBranches(p) = AbsentResult
    /\ \A p \in ProjectPaths, b \in BranchNames, j \in BOOLEAN :
         getPipeline(p, b, j) = AbsentResult
====
